---- MODULE Spec2Model ----
(***************************************************************************)
(* Frame lifecycle of AppBase (src/src/framework/app-base.js): init,       *)
(* start, the tick function built by makeTick, destroy and cancelTick.     *)
(*                                                                         *)
(* Times are integers in milliseconds.  timeScale is held in units of      *)
(* 1/ScaleUnit, maxDeltaTime in milliseconds, so the delta dt is held in   *)
(* units of 1/(1000*ScaleUnit) second: dt = clamp(ms, 0, maxDeltaTime) *   *)
(* timeScale is the code's clamp(ms / 1000, 0, maxDeltaTime) * timeScale   *)
(* with both sides multiplied by 1000*ScaleUnit.                           *)
(*                                                                         *)
(* A tick is executed in steps; pc is the event whose handlers are         *)
(* running ("idle": no tick is executing).  User code runs between ticks   *)
(* and inside handlers, so the operations user code may call (destroy,     *)
(* the setters) are enabled at every pc.  The XR session's own frame       *)
(* requests are not modelled (xr.session is absent).                       *)
(***************************************************************************)
EXTENDS Integers, FiniteSets, Sequences, TLC

VARIABLES
    graphicsDevice,     \* "undefined" before init, "device", "null" after destroy
    tick,               \* the app's tick field: "undefined", "fn", "null"
    contextLost,        \* graphicsDevice.contextLost
    _inFrameUpdate,
    _destroyRequested,
    _time,
    timeScale,
    maxDeltaTime,
    frame,
    frameRequestId,     \* 0 stands for undefined / null
    autoRender,
    renderNextFrame,
    platformBrowser,    \* platform.browser || platform.worker
    rafPending,         \* frame requests issued and neither fired nor cancelled
    rafIssued,          \* number of frame requests issued so far (the last id)
    clock,              \* the last value returned by now()
    pc,                 \* position inside the tick function
    dt,                 \* the delta computed by the current / last tick
    xrFrame,            \* whether the current tick received an XRFrame
    lastTs,             \* the timestamp argument of the latest tick invocation
    calls,              \* history: invocations of the tick function
    destroyCount,       \* history: how often the destroy sequence has run
    cbDestroy,          \* history: destroy() was called while a tick was executing
    lastOp,             \* history: the last operation that was called
    lightmapper,        \* whether app.lightmapper has been created
    bakeHooks,          \* registered once('prerender', _firstBake) handlers
    inits,              \* history: runs of init() (renderers, tick functions built)
    startCalls,         \* history: calls of start()
    startRuns,          \* history: calls of start() that performed their tick
    renders,            \* history: calls of render()
    bakes,              \* history: calls of lightmapper.bake()
    log,                \* history: what the latest start() / tick did, in order
    \* MaterialHandler (src/src/framework/handlers/material.js), one material asset
    TEXTURES,           \* standardMaterialTextureParameters: the declared texture slots
    handler,            \* the MaterialHandler: "none", "constructed"
    registry,           \* the asset registry: each texture asset "absent", "added", "loaded"
    data,               \* materialAsset.data[name]: an asset id, 0 for none
    validated,          \* materialAsset.data.validated
    material,           \* materialAsset.resource[name]: the texture of each slot
    _assetReferences,   \* material._assetReferences[name]: the id it is bound to
    materialLoaded,     \* materialAsset.resource exists
    matOp,              \* history: the latest operation
    matArg,             \* history: the asset id of the latest registry event
    loadCalls,          \* history: assets.load() calls made by the latest operation
    updates,            \* history: re-initialisations made by the latest operation
    handled,            \* history: slots whose handler the latest event invoked
    repeated,           \* history: the latest operation repeated the resolve before it
    \* the cubemap slots of the same handler, on a material of their own
    cubeRegistry,       \* each cubemap asset: "absent", "added" or the shape it loaded with
    cubeData,           \* materialAsset.data[name] of the cubemap slots: an asset id, 0 for none
    prefilteredCubeMap128,  \* materialAsset.data.prefilteredCubeMap128: undefined, null or an asset id
    cubeMaterial,       \* materialAsset.resource[name] of the cubemap slots
    prefilteredCubemaps,    \* materialAsset.resource.prefilteredCubemaps: <<>> for null
    envAtlas,           \* materialAsset.resource.envAtlas
    cubeReferences,     \* material._assetReferences[name] of the cubemap slots
    cubeOp,             \* history: the latest operation
    cubeArg,            \* history: the asset id of the latest registry event
    cubeAssigned,       \* history: the calls of _assignCubemap made by the latest operation
    cubeHandled,        \* history: slots whose handler the latest event invoked
    cubeUpdates,        \* history: re-initialisations made by the latest operation
    \* the applications of one page and the lookup of the current one
    _applications,      \* AppBase._applications: by canvas id, an application, "null" or "undefined"
    currentApplication, \* what getApplication() of globals.js returns
    canvas,             \* the id of the canvas each application was constructed with
    deviceCanvas,       \* the id of the canvas of each application's graphics device
    device,             \* each application's graphicsDevice: "undefined", "device", "null"
    inFrameUpdate,      \* each application's _inFrameUpdate
    destroyAsked,       \* each application's _destroyRequested
    lookupOp,           \* history: the latest operation and its application
    \* preload(callback) of one application
    preloadAssets,      \* const assets: the assets marked preload when preload() was called
    loadedCount,        \* let loadedCount
    loadOnce,           \* assets with the once('load') handler still registered
    errorOnce,          \* assets with the once('error') handler still registered
    settled,            \* history: assets of the list that have loaded or errored
    fires,              \* history: 'load' and 'error' events fired after preload() was called
    preloadEnds,        \* history: times 'preload:end' has been fired
    preloadCallbacks,   \* history: times the callback has been invoked
    endedSettled,       \* history: every asset had settled whenever 'preload:end' was fired
    preloadOp,          \* history: the latest operation
    \* _loadLibraries(urls, callback) of one application
    libLen,             \* const len = urls.length; -1 before the call
    libCount,           \* let count: the loads that have not called back
    libReported,        \* history: what the callback has been invoked with, in order
    libFailed,          \* history: a library has failed to load
    librariesLoaded,    \* history: runs of onLibrariesLoaded()
    \* setSkybox(asset) of one application
    _skyboxAsset,       \* this._skyboxAsset: an asset id, 0 for null
    sceneSkybox,        \* the asset whose resources scene.setSkybox was last given, 0 for null
    loadHandlers,       \* handlers of `load:${id}` on the registry: <<id, closure>>
    removeHandlers,     \* one-shot handlers of `remove:${id}` on the registry: <<id, closure>>
    closures,           \* history: calls of setSkybox that made their two closures
    skyOp,              \* history: the latest operation
    skyArg,             \* history: its asset
    \* Mouse (src/src/platform/input/mouse.js) of one application
    _buttons,           \* this._buttons, by button
    _lastbuttons,       \* this._lastbuttons, by button
    _target,            \* this._target: an element or "null"
    _attached,          \* this._attached
    windowListeners,    \* the event types the mouse's handlers are registered for on window
    held,               \* the buttons the user holds down
    updatesSince,       \* history: update phases run since the button's latest mousedown
    pressedIn,          \* history: which of those found wasPressed(button) true
    mouseOp             \* history: the latest operation

appVars == <<graphicsDevice, tick, contextLost, _inFrameUpdate, _destroyRequested,
          _time, timeScale, maxDeltaTime, frame, frameRequestId, autoRender,
          renderNextFrame, platformBrowser, rafPending, rafIssued, clock, pc, dt,
          xrFrame, lastTs, calls, destroyCount, cbDestroy, lastOp, lightmapper,
          bakeHooks, inits, startCalls, startRuns, renders, bakes, log>>

matVars == <<TEXTURES, handler, registry, data, validated, material,
             _assetReferences, materialLoaded, matOp, matArg, loadCalls, updates,
             handled, repeated>>

cubeVars == <<cubeRegistry, cubeData, prefilteredCubeMap128, cubeMaterial,
              prefilteredCubemaps, envAtlas, cubeReferences, cubeOp, cubeArg,
              cubeAssigned, cubeHandled, cubeUpdates>>

lookupVars == <<_applications, currentApplication, canvas, deviceCanvas, device,
                inFrameUpdate, destroyAsked, lookupOp>>

preloadVars == <<preloadAssets, loadedCount, loadOnce, errorOnce, settled, fires,
                 preloadEnds, preloadCallbacks, endedSettled, preloadOp>>

libVars == <<libLen, libCount, libReported, libFailed, librariesLoaded>>

skyVars == <<_skyboxAsset, sceneSkybox, loadHandlers, removeHandlers, closures,
             skyOp, skyArg>>

mouseVars == <<_buttons, _lastbuttons, _target, _attached, windowListeners, held,
               updatesSince, pressedIn, mouseOp>>

vars == <<appVars, matVars, cubeVars, lookupVars, preloadVars, libVars, skyVars,
          mouseVars>>

\* what the application's own operations leave alone
notApp == <<matVars, cubeVars, lookupVars, preloadVars, libVars, skyVars,
    mouseVars>>

\* what the texture slots' operations leave alone
notMat == <<appVars, cubeVars, lookupVars, preloadVars, libVars, skyVars,
    mouseVars>>

\* what the cubemap slots' operations leave alone
notCube == <<appVars, matVars, lookupVars, preloadVars, libVars, skyVars,
    mouseVars>>

\* what the operations on the page's applications leave alone
notLookup == <<appVars, matVars, cubeVars, preloadVars, libVars, skyVars,
    mouseVars>>

\* what preload() and the events of its assets leave alone
notPreload == <<appVars, matVars, cubeVars, lookupVars, libVars, skyVars,
    mouseVars>>

\* what _loadLibraries and its loads leave alone
notLib == <<appVars, matVars, cubeVars, lookupVars, preloadVars, skyVars,
    mouseVars>>

\* what the mouse's operations leave alone
notMouse == <<appVars, matVars, cubeVars, lookupVars, preloadVars, libVars, skyVars>>

\* what setSkybox and the events of the skybox assets leave alone
notSky == <<appVars, matVars, cubeVars, lookupVars, preloadVars, libVars,
    mouseVars>>

\* variables only init() writes, only start() writes, only render() writes
initVars == <<lightmapper, inits>>
startVars == <<startCalls, startRuns>>
renderVars == <<renders, bakes>>

(***************************************************************************)
(* Bounds and value sets                                                   *)
(***************************************************************************)
\* tick invocations explored
MaxTicks == 4

\* calls of init() explored
MaxInits == 2

\* calls of start() explored
MaxStarts == 2

\* timeScale = 1 in the model's units
ScaleUnit == 2

\* the timestamp argument when the tick function is called without one
Undefined == -1

\* timestamps handed to the tick function, in ms
Timestamps == {Undefined, 0, 16, 33, 5000}

\* timestamps handed to the tick function where the delta is not under study
LifeTimestamps == {Undefined, 16}

\* values now() may return, in ms
NowValues == {40, 5000}

\* timeScale values user code may set: -1/2, 0, 1/2, 1, 2
TimeScales == {-1, 0, 1, 2, 4}

\* maxDeltaTime values user code may set, in ms: -0.1 s, 0, 0.1 s, 0.2 s
MaxDeltaTimes == {-100, 0, 100, 200}

BodyPcs == {"frameupdate", "update", "framerender", "prerender", "postrender", "frameend"}

(***************************************************************************)
(* Pure helpers                                                            *)
(***************************************************************************)
\* math.clamp(value, min, max)
Clamp(value, min, max) ==
    IF value >= max THEN max ELSE IF value <= min THEN min ELSE value

\* a JavaScript number used as a condition
Truthy(n) == n # 0 /\ n # Undefined

\* _processTimestamp(timestamp) || now()
CurrentTime(timestamp, n) ==
    IF Truthy(timestamp) THEN timestamp ELSE n

\* the values the now() call of the tick function can return
NowChoices(timestamp) ==
    IF Truthy(timestamp) THEN {clock} ELSE {n \in NowValues : n >= clock}

\* ms = currentTime - (application._time || currentTime)
ElapsedMs(currentTime) ==
    currentTime - (IF Truthy(_time) THEN _time ELSE currentTime)

\* the delta without the clamp
ComputeDt_NoClamp(ms) == ms * timeScale

\* dt = clamp(ms / 1000, 0, maxDeltaTime) * timeScale
ComputeDt(ms) ==
    Clamp(ms, 0, maxDeltaTime) * timeScale

\* the tick function without its guard
TickGuard_Off == FALSE

\* if (!application.graphicsDevice) return;
TickGuard == graphicsDevice # "device"

\* the tick function without the cancellation
CancelHanging_Skip(pending) == pending

\* the frame requests left after the tick function cancelled the stored one
CancelHanging(pending) ==
    IF frameRequestId # 0 THEN pending \ {frameRequestId} ELSE pending

\* cancelTick without the cancellation
CancelTick_Skip(pending) == pending

\* AppBase.cancelTick: the frame requests left after the stored one is cancelled
CancelTick(pending) ==
    IF frameRequestId # 0 THEN pending \ {frameRequestId} ELSE pending

\* destroy() without the check of _inFrameUpdate
DestroyDeferred_Never(inFrame) == FALSE

\* if (this._inFrameUpdate) { this._destroyRequested = true; return; }
DestroyDeferred(inFrame) == inFrame

(***************************************************************************)
(* MaterialHandler: texture slots, placeholders, the asset registry        *)
(*                                                                         *)
(* One material asset and its StandardMaterial.  A texture is a record:    *)
(* null, a built-in texture (by name), or the resource of a texture asset  *)
(* (by asset id), or a texture that was the resource of an asset unloaded  *)
(* or removed since: a reloaded asset has a new resource.                  *)
(* Path addressing (assetReference.url) is left out.                       *)
(***************************************************************************)
\* the ids of the texture assets
AssetIds == {1, 2}

\* no asset id in the material's data
NoId == 0

\* material._assetReferences[name] is undefined
NoReference == -1

\* const PLACEHOLDER_MAP, for the slots modelled
PLACEHOLDER_MAP ==
    [diffuseMap |-> "gray", normalMap |-> "normal"]

\* the texture slots the model declares
DeclaredSlots == {"diffuseMap", "normalMap"}

\* a declared list with a slot PLACEHOLDER_MAP has no entry for
UnlistedSlots == {"diffuseMap", "unlistedMap"}

Null == [kind |-> "null", name |-> "", id |-> 0]

\* the resource of a texture asset that has none (not loaded)
NoResource == [kind |-> "undefined", name |-> "", id |-> 0]

BuiltIn(colour) == [kind |-> "builtin", name |-> colour, id |-> 0]

\* the texture a loaded texture asset has as its resource
Texture(id) == [kind |-> "texture", name |-> "", id |-> id]

\* textureAsset.resource
Resource(id) ==
    IF registry[id] = "loaded" THEN Texture(id) ELSE NoResource

\* what was the resource of the asset id before it was unloaded or removed
Freed(id) == [kind |-> "freed", name |-> "", id |-> id]

\* _getPlaceholderTexture(parameterName): the Debug.assert is dropped from a
\* release build, where a missing name gives getBuiltInTexture(device, undefined)
GetPlaceholderTexture(name) ==
    IF name \in DOMAIN PLACEHOLDER_MAP
    THEN BuiltIn(PLACEHOLDER_MAP[name])
    ELSE BuiltIn("undefined")

\* the state once the material asset has been opened, before its first patch
MatInit(declared) ==
    /\ TEXTURES = declared
    /\ handler = "none"
    /\ registry = [id \in AssetIds |-> "absent"]
    /\ data = [n \in declared |-> NoId]
    /\ validated = FALSE
    /\ material = [n \in declared |-> Null]
    /\ _assetReferences = [n \in declared |-> NoReference]
    /\ materialLoaded = TRUE
    /\ matOp = "new"
    /\ matArg = NoId
    /\ loadCalls = 0
    /\ updates = 0
    /\ handled = {}
    /\ repeated = FALSE

(***************************************************************************)
(* Cubemap slots.  A cubemap asset has seven resources: the cubemap of its *)
(* faces (level 0) and six prefiltered levels (1..6); each is a texture or *)
(* null, and an asset that is not loaded has none (undefined).  A shape    *)
(* names which levels a loaded asset has.                                  *)
(***************************************************************************)
\* the id of the cubemap asset
CubeIds == {1}

\* the cubemap slots: 'cubeMap' and one with another name
CUBEMAPS == {"cubeMap", "otherCubeMap"}

\* the levels of a cubemap asset's resources
Levels == 0 .. 6

\* the levels a loaded cubemap asset may have
CubeShapes == {"full", "faces", "atlas"}

\* whether a cubemap asset of this shape has the level
HasLevel(shape, level) ==
    CASE shape = "full" -> TRUE
      [] shape = "faces" -> level = 0
      [] shape = "atlas" -> level \in {0, 1}
      [] OTHER -> FALSE

CubeNull == [kind |-> "null", asset |-> 0, level |-> 0]

CubeUndefined == [kind |-> "undefined", asset |-> 0, level |-> 0]

\* an asset id held in the material's data
CubeId(id) == [kind |-> "id", asset |-> id, level |-> 0]

\* a texture of a loaded cubemap asset
CubeTexture(id, level) == [kind |-> "cubemap", asset |-> id, level |-> level]

\* what was a texture of the asset before it was unloaded or removed
CubeFreed(id, level) == [kind |-> "freed", asset |-> id, level |-> level]

\* cubemapAsset.resources, by level
CubeResources(id) ==
    [level \in Levels |->
        IF cubeRegistry[id] \in CubeShapes
        THEN IF HasLevel(cubeRegistry[id], level)
             THEN CubeTexture(id, level)
             ELSE CubeNull
        ELSE CubeUndefined]

\* [null, null, null, null, null, null, null]
SevenNulls == [level \in Levels |-> CubeNull]

\* a value JavaScript takes as true
Present(value) == value.kind \in {"cubemap", "freed", "id"}

\* the state of the cubemap slots once the material asset has been opened
CubeInit ==
    /\ cubeRegistry = [id \in CubeIds |-> "absent"]
    /\ cubeData = [n \in CUBEMAPS |-> NoId]
    /\ prefilteredCubeMap128 = CubeUndefined
    /\ cubeMaterial = [n \in CUBEMAPS |-> CubeNull]
    /\ prefilteredCubemaps = <<>>
    /\ envAtlas = CubeNull
    /\ cubeReferences = [n \in CUBEMAPS |-> NoReference]
    /\ cubeOp = "new"
    /\ cubeArg = NoId
    /\ cubeAssigned = {}
    /\ cubeHandled = {}
    /\ cubeUpdates = 0

(***************************************************************************)
(* The applications of one page.  An application registers itself under    *)
(* the id of the canvas it is constructed with and becomes the current     *)
(* one; its tick makes it current again; destroy() clears the entry of its *)
(* graphics device's canvas.  A canvas without an id has the id "".        *)
(***************************************************************************)
\* the application objects
Apps == {"A", "B"}

\* the ids of the page's canvases
CanvasIds == {"", "c", "d"}

\* the application is not constructed yet
NoCanvas == "-"

\* the state before any application is constructed
LookupInit ==
    /\ _applications = [id \in CanvasIds |-> "undefined"]
    /\ currentApplication = "undefined"
    /\ canvas = [a \in Apps |-> NoCanvas]
    /\ deviceCanvas = [a \in Apps |-> NoCanvas]
    /\ device = [a \in Apps |-> "undefined"]
    /\ inFrameUpdate = [a \in Apps |-> FALSE]
    /\ destroyAsked = [a \in Apps |-> FALSE]
    /\ lookupOp = <<"none", "none">>

(***************************************************************************)
(* preload(callback): the assets of the registry marked preload, the       *)
(* counter of the closure and the one-shot handlers it registers.          *)
(***************************************************************************)
\* the assets of the registry that can be marked preload
PreloadIds == {1, 2}

\* how many 'load' and 'error' events are fired after preload() was called
MaxFires == 3

\* the state before preload() is called
PreloadInit ==
    /\ preloadAssets = {}
    /\ loadedCount = 0
    /\ loadOnce = {}
    /\ errorOnce = {}
    /\ settled = {}
    /\ fires = 0
    /\ preloadEnds = 0
    /\ preloadCallbacks = 0
    /\ endedSettled = TRUE
    /\ preloadOp = "none"

(***************************************************************************)
(* _loadLibraries(urls, callback): the counter of the closure and what the *)
(* callback is invoked with.                                               *)
(***************************************************************************)
\* the longest list of urls
MaxLibs == 5

\* _loadLibraries has not been called
NotCalled == -1

\* the state before _loadLibraries is called
LibInit ==
    /\ libLen = NotCalled
    /\ libCount = 0
    /\ libReported = <<>>
    /\ libFailed = FALSE
    /\ librariesLoaded = 0

(***************************************************************************)
(* setSkybox(asset): the skybox asset, the scene's skybox and the handlers *)
(* on the asset registry.  Each call of setSkybox makes two new closures;  *)
(* a handler is named by the asset of its event and the call that made it. *)
(***************************************************************************)
\* the ids of the skybox assets
SkyboxIds == {1, 2}

\* how many calls of setSkybox make closures
MaxClosures == 3

\* the state of a new application: no skybox
SkyInit ==
    /\ _skyboxAsset = NoId
    /\ sceneSkybox = NoId
    /\ loadHandlers = {}
    /\ removeHandlers = {}
    /\ closures = 0
    /\ skyOp = "none"
    /\ skyArg = NoId

(***************************************************************************)
(* Mouse: the button states, the listeners on window and the user's hand.  *)
(***************************************************************************)
\* the buttons modelled, of MOUSEBUTTON_LEFT, MIDDLE and RIGHT
Buttons == {0, 1}

\* the elements a mouse may be attached to
Elements == {"canvas", "other"}

\* the events of window the mouse listens to
MouseEvents == {"mouseup", "mousedown", "mousemove", "wheel"}

\* how many update phases are counted after a mousedown
MaxSince == 3

\* new Mouse(element): the fields' initial values, then attach(element)
MouseInit ==
    /\ _buttons = [b \in Buttons |-> FALSE]
    /\ _lastbuttons = [b \in Buttons |-> FALSE]
    /\ _target = "canvas"
    /\ _attached = TRUE
    /\ windowListeners = MouseEvents
    /\ held = [b \in Buttons |-> FALSE]
    /\ updatesSince = [b \in Buttons |-> 0]
    /\ pressedIn = [b \in Buttons |-> {}]
    /\ mouseOp = "new"

(***************************************************************************)
(* Initial state: the application has been constructed                     *)
(***************************************************************************)
InitApp ==
    /\ graphicsDevice = "undefined"
    /\ tick = "undefined"
    /\ contextLost = FALSE
    /\ _inFrameUpdate = FALSE
    /\ _destroyRequested = FALSE
    /\ _time = 0
    /\ timeScale = ScaleUnit
    /\ maxDeltaTime = 100
    /\ frame = 0
    /\ frameRequestId = 0
    /\ autoRender = TRUE
    /\ renderNextFrame = FALSE
    /\ platformBrowser \in BOOLEAN
    /\ rafPending = {}
    /\ rafIssued = 0
    /\ clock = 0
    /\ pc = "idle"
    /\ dt = 0
    /\ xrFrame = FALSE
    /\ lastTs = Undefined
    /\ calls = 0
    /\ destroyCount = 0
    /\ cbDestroy = FALSE
    /\ lastOp = "new"
    /\ lightmapper = FALSE
    /\ bakeHooks = 0
    /\ inits = 0
    /\ startCalls = 0
    /\ startRuns = 0
    /\ renders = 0
    /\ bakes = 0
    /\ log = <<>>

\* the initial state of what lies outside the application and the texture slots
InitRest ==
    /\ CubeInit /\ LookupInit /\ PreloadInit /\ LibInit /\ SkyInit
    /\ MouseInit

\* the application constructed, the material opened
Init == InitApp /\ MatInit(DeclaredSlots) /\ InitRest

\* the same with either list of declared texture slots
InitConfig ==
    /\ InitApp
    /\ \E declared \in {DeclaredSlots, UnlistedSlots} : MatInit(declared)
    /\ InitRest

(***************************************************************************)
(* destroy() and cancelTick()                                              *)
(***************************************************************************)
\* AppBase.destroy, called with _inFrameUpdate = inFrame
Destroy(inFrame) ==
    IF DestroyDeferred(inFrame)
    THEN /\ _destroyRequested' = TRUE
         /\ UNCHANGED <<graphicsDevice, tick, frameRequestId, rafPending, destroyCount,
                      bakeHooks>>
    ELSE IF graphicsDevice = "device"
    THEN /\ graphicsDevice' = "null"
         /\ tick' = "null"
         \* this.off()
         /\ bakeHooks' = 0
         \* AppBase.cancelTick(this)
         /\ rafPending' = CancelTick(rafPending)
         /\ frameRequestId' = 0
         /\ destroyCount' = destroyCount + 1
         /\ UNCHANGED _destroyRequested
    \* this.graphicsDevice.canvas throws a TypeError
    ELSE UNCHANGED <<graphicsDevice, tick, frameRequestId, rafPending,
                     destroyCount, _destroyRequested, bakeHooks>>

\* user code calls app.destroy(), between ticks or from a handler
DestroyCall ==
    /\ Destroy(_inFrameUpdate)
    /\ cbDestroy' = (cbDestroy \/ pc # "idle")
    /\ lastOp' = "destroy"
    /\ UNCHANGED <<contextLost, _inFrameUpdate, _time, timeScale, maxDeltaTime,
                   frame, autoRender, renderNextFrame, platformBrowser, rafIssued,
                   clock, pc, dt, xrFrame, lastTs, calls, initVars, startVars,
                   renderVars, log>>

(***************************************************************************)
(* init() and the setters                                                  *)
(***************************************************************************)
\* AppBase.init with (lm) or without a lightmapper in its options: stores the
\* graphics device, registers the one-shot bake and builds the tick function.
\* Re-initialising a destroyed application object is not modelled.
\* once(name, callback): one more one-shot handler of the event; the handlers
\* registered all run when the event is next fired, and are removed
Once(hooks) == hooks + 1

AppInit(lm) ==
    /\ pc = "idle"
    /\ graphicsDevice # "null"
    /\ inits < MaxInits
    /\ graphicsDevice' = "device"
    /\ tick' = "fn"
    /\ inits' = inits + 1
    \* if (lightmapper) { this.lightmapper = ...; this.once('prerender', this._firstBake, this); }
    /\ lightmapper' = (lightmapper \/ lm)
    /\ bakeHooks' = IF lm THEN Once(bakeHooks) ELSE bakeHooks
    /\ lastOp' = "init"
    /\ UNCHANGED <<contextLost, _inFrameUpdate, _destroyRequested, _time, timeScale,
                   maxDeltaTime, frame, frameRequestId, autoRender, renderNextFrame,
                   platformBrowser, rafPending, rafIssued, clock, pc, dt, xrFrame, lastTs,
                   calls, destroyCount, cbDestroy, startVars, renderVars, log>>

\* user code assigns app.timeScale (between ticks: a tick reads it once, on entry)
SetTimeScale(s) ==
    /\ pc = "idle"
    /\ timeScale # s
    /\ timeScale' = s
    /\ UNCHANGED <<graphicsDevice, tick, contextLost, _inFrameUpdate,
                   _destroyRequested, _time, maxDeltaTime, frame, frameRequestId,
                   autoRender, renderNextFrame, platformBrowser, rafPending,
                   rafIssued, clock, pc, dt, xrFrame, lastTs, calls, destroyCount, cbDestroy, lastOp,
                   initVars, startVars, renderVars, bakeHooks, log>>

\* user code assigns app.maxDeltaTime
SetMaxDeltaTime(m) ==
    /\ pc = "idle"
    /\ maxDeltaTime # m
    /\ maxDeltaTime' = m
    /\ UNCHANGED <<graphicsDevice, tick, contextLost, _inFrameUpdate,
                   _destroyRequested, _time, timeScale, frame, frameRequestId,
                   autoRender, renderNextFrame, platformBrowser, rafPending,
                   rafIssued, clock, pc, dt, xrFrame, lastTs, calls, destroyCount, cbDestroy, lastOp,
                   initVars, startVars, renderVars, bakeHooks, log>>

\* user code assigns app.autoRender and app.renderNextFrame
SetRender(a, r) ==
    /\ <<a, r>> # <<autoRender, renderNextFrame>>
    /\ autoRender' = a
    /\ renderNextFrame' = r
    /\ UNCHANGED <<graphicsDevice, tick, contextLost, _inFrameUpdate,
                   _destroyRequested, _time, timeScale, maxDeltaTime, frame,
                   frameRequestId, platformBrowser, rafPending, rafIssued, clock,
                   pc, dt, xrFrame, lastTs, calls, destroyCount, cbDestroy, lastOp,
                   initVars, startVars, renderVars, bakeHooks, log>>

\* the graphics device loses or recovers its context (a browser event,
\* delivered between ticks)
SetContextLost(b) ==
    /\ pc = "idle"
    /\ graphicsDevice = "device"
    /\ contextLost # b
    /\ contextLost' = b
    /\ UNCHANGED <<graphicsDevice, tick, _inFrameUpdate, _destroyRequested, _time,
                   timeScale, maxDeltaTime, frame, frameRequestId, autoRender,
                   renderNextFrame, platformBrowser, rafPending, rafIssued, clock,
                   pc, dt, xrFrame, lastTs, calls, destroyCount, cbDestroy, lastOp,
                   initVars, startVars, renderVars, bakeHooks, log>>

(***************************************************************************)
(* The tick function built by makeTick                                     *)
(***************************************************************************)
\* the frame request issued only after the check of contextLost
RequestsFrame_AfterContextCheck == platformBrowser /\ ~contextLost

\* requestAnimationFrame(application.tick) on a browser or worker, else null
RequestsFrame == platformBrowser

TickPrologue_RequestLast(hadRequest) ==
    <<"inFrame", "request">> \o (IF hadRequest THEN <<"cancel">> ELSE <<>>) \o <<"dt">>

\* what the tick function does before this frame's logic, in order; hadRequest:
\* a frame request id was stored
TickPrologue(hadRequest) ==
    (IF hadRequest THEN <<"cancel">> ELSE <<>>) \o <<"inFrame", "dt", "request">>

\* this frame's logic up to the firing of 'frameupdate'
TickFrameLogic == <<"stats", "frameupdate">>

UpdateEvents_InputFirst ==
    <<"inputUpdate", "sys:update", "sys:animationUpdate", "sys:postUpdate", "update">>

UpdateEvents_AppFirst ==
    <<"update", "sys:update", "sys:animationUpdate", "sys:postUpdate", "inputUpdate">>

\* what application.update(dt) does, in order
UpdateEvents ==
    <<"sys:update", "sys:animationUpdate", "sys:postUpdate", "update", "inputUpdate">>

StartEvents_AppFirst ==
    <<"start", "initialize", "sys:initialize", "postinitialize",
      "sys:postInitialize", "sys:postPostInitialize">>

\* what start() fires before it calls this.tick(), in order
StartEvents ==
    <<"start", "sys:initialize", "initialize", "sys:postInitialize",
      "sys:postPostInitialize", "postinitialize">>

TickCallable_Always == TRUE

\* this.tick() in start() can be called
TickCallable == tick = "fn"

\* the tick function threw: the rest of the tick is not executed
Throw ==
    /\ pc' = "idle"
    /\ UNCHANGED <<graphicsDevice, tick, contextLost, _inFrameUpdate,
                   _destroyRequested, _time, timeScale, maxDeltaTime, frame,
                   frameRequestId, autoRender, renderNextFrame, platformBrowser,
                   rafPending, rafIssued, clock, dt, xrFrame, lastTs, calls, destroyCount,
                   cbDestroy, lastOp, initVars, startVars, renderVars, bakeHooks, log>>

\* the tick function from its entry to the firing of 'frameupdate'; pending is
\* the set of outstanding frame requests when it is entered, prefix what the
\* caller has logged.  frame and startVars are left to the caller.
TickBegin(timestamp, xrf, pending, op, prefix) ==
    /\ calls' = calls + 1
    /\ lastTs' = timestamp
    /\ IF TickGuard
       THEN /\ rafPending' = pending
            /\ lastOp' = "tickGuard"
            /\ log' = prefix
            /\ UNCHANGED <<graphicsDevice, tick, contextLost, _inFrameUpdate,
                           _destroyRequested, _time, timeScale, maxDeltaTime,
                           frameRequestId, autoRender, renderNextFrame,
                           platformBrowser, rafIssued, clock, pc, dt, xrFrame,
                           destroyCount, cbDestroy, initVars, renderVars,
                           bakeHooks>>
       ELSE \E n \in NowChoices(timestamp) :
            LET currentTime == CurrentTime(timestamp, n)
                ms == ElapsedMs(currentTime)
                cancelled == CancelHanging(pending)
            IN  /\ _inFrameUpdate' = TRUE
                /\ clock' = n
                /\ dt' = ComputeDt(ms)
                /\ _time' = currentTime
                /\ IF RequestsFrame
                   THEN /\ rafIssued' = rafIssued + 1
                        /\ frameRequestId' = rafIssued + 1
                        /\ rafPending' = cancelled \cup {rafIssued + 1}
                   ELSE /\ frameRequestId' = 0
                        /\ rafPending' = cancelled
                        /\ UNCHANGED rafIssued
                \* if (application.graphicsDevice.contextLost) return;
                \* (reading contextLost of a null device throws)
                /\ pc' = IF graphicsDevice # "device" \/ contextLost
                         THEN "idle" ELSE "frameupdate"
                /\ log' = prefix \o TickPrologue(frameRequestId # 0)
                             \o (IF graphicsDevice # "device" \/ contextLost
                                 THEN <<>> ELSE TickFrameLogic)
                /\ xrFrame' = xrf
                /\ lastOp' = op
                /\ UNCHANGED <<graphicsDevice, tick, contextLost, _destroyRequested,
                               timeScale, maxDeltaTime, autoRender, renderNextFrame,
                               platformBrowser, destroyCount, cbDestroy,
                               initVars, renderVars, bakeHooks>>

\* the end of the tick function: _inFrameUpdate = false, then the deferred destroy
TickFinish ==
    /\ _inFrameUpdate' = FALSE
    /\ IF _destroyRequested
       THEN Destroy(FALSE)
       ELSE UNCHANGED <<graphicsDevice, tick, frameRequestId, rafPending,
                        destroyCount, _destroyRequested, bakeHooks>>
    /\ pc' = "idle"

\* AppBase.start: resets the frame counter, fires the start-up events and
\* calls this.tick()
Start ==
    /\ pc = "idle"
    /\ startCalls < MaxStarts
    /\ startCalls' = startCalls + 1
    /\ frame' = 0
    /\ IF TickCallable
       THEN /\ calls < MaxTicks
            /\ startRuns' = startRuns + 1
            /\ TickBegin(Undefined, FALSE, rafPending, "start", StartEvents)
       \* this.tick is not a function (before init), or this.systems is null
       \* (after destroy): a TypeError
       ELSE /\ lastOp' = "startThrew"
            /\ log' = IF tick = "undefined" THEN StartEvents ELSE <<"start">>
            /\ UNCHANGED <<graphicsDevice, tick, contextLost, _inFrameUpdate,
                           _destroyRequested, _time, timeScale, maxDeltaTime,
                           frameRequestId, autoRender, renderNextFrame,
                           platformBrowser, rafPending, rafIssued, clock, pc, dt,
                           xrFrame, lastTs, calls, destroyCount, cbDestroy,
                           startRuns, initVars, renderVars, bakeHooks>>

\* the frame request source fires an outstanding request r
RafFire(r, timestamp) ==
    /\ pc = "idle"
    /\ calls < MaxTicks
    /\ r \in rafPending
    /\ TickBegin(timestamp, FALSE, rafPending \ {r}, "raf", <<>>)
    /\ UNCHANGED <<frame, startVars>>

\* the tick function is called directly (by user code or an XR session)
TickCall(timestamp, xrf) ==
    /\ pc = "idle"
    /\ calls < MaxTicks
    /\ tick # "undefined"
    /\ TickBegin(timestamp, xrf, rafPending, "tick", <<>>)
    /\ UNCHANGED <<frame, startVars>>

NextFrame_Same(n) == n

\* this.frame++ at the head of update(dt)
NextFrame(n) == n + 1

\* 'frameupdate' has been fired; skipUpdate is decided, application.update begins
AfterFrameUpdate(xrUpdated) ==
    /\ pc = "frameupdate"
    /\ IF graphicsDevice # "device"
       THEN Throw
       ELSE IF xrFrame /\ ~xrUpdated
       THEN /\ TickFinish
            /\ UNCHANGED <<contextLost, _time, timeScale, maxDeltaTime, frame,
                           autoRender, renderNextFrame, platformBrowser, rafIssued,
                           clock, dt, xrFrame, lastTs, calls, cbDestroy, lastOp,
                           initVars, startVars, renderVars, log>>
       ELSE /\ frame' = NextFrame(frame)
            /\ pc' = "update"
            /\ log' = log \o UpdateEvents
            /\ UNCHANGED <<graphicsDevice, tick, contextLost, _inFrameUpdate,
                           _destroyRequested, _time, timeScale, maxDeltaTime,
                           frameRequestId, autoRender, renderNextFrame,
                           platformBrowser, rafPending, rafIssued, clock, dt,
                           xrFrame, lastTs, calls, destroyCount, cbDestroy, lastOp,
                           initVars, startVars, renderVars, bakeHooks>>

\* application.update is done; 'framerender' is fired
AfterUpdate ==
    /\ pc = "update"
    /\ pc' = "framerender"
    /\ log' = Append(log, "framerender")
    /\ UNCHANGED <<graphicsDevice, tick, contextLost, _inFrameUpdate,
                   _destroyRequested, _time, timeScale, maxDeltaTime, frame,
                   frameRequestId, autoRender, renderNextFrame, platformBrowser,
                   rafPending, rafIssued, clock, dt, xrFrame, lastTs, calls, destroyCount,
                   cbDestroy, lastOp, initVars, startVars, renderVars, bakeHooks>>

Renders_AutoOnly == autoRender

\* if (application.autoRender || application.renderNextFrame)
Renders == autoRender \/ renderNextFrame

\* 'framerender' has been fired; render() begins and fires 'prerender', or
\* 'frameend' is fired
AfterFrameRender ==
    /\ pc = "framerender"
    /\ IF Renders /\ graphicsDevice # "device"
       THEN Throw
       ELSE /\ IF Renders
               THEN /\ pc' = "prerender"
                    /\ renders' = renders + 1
                    \* the once('prerender') handlers run and are removed
                    /\ bakes' = IF lightmapper THEN bakes + bakeHooks ELSE bakes
                    /\ bakeHooks' = 0
                    /\ log' = log \o <<"frameStart", "prerender">>
               ELSE /\ pc' = "frameend"
                    /\ log' = Append(log, "frameend")
                    /\ UNCHANGED <<renderVars, bakeHooks>>
            /\ UNCHANGED <<graphicsDevice, tick, contextLost, _inFrameUpdate,
                           _destroyRequested, _time, timeScale, maxDeltaTime, frame,
                           frameRequestId, autoRender, renderNextFrame,
                           platformBrowser, rafPending, rafIssued, clock, dt,
                           xrFrame, lastTs, calls, destroyCount, cbDestroy, lastOp,
                           initVars, startVars>>

\* 'prerender' has been fired; the composition is rendered, 'postrender' is fired
AfterPreRender ==
    /\ pc = "prerender"
    /\ IF graphicsDevice # "device"
       THEN Throw
       ELSE /\ pc' = "postrender"
            /\ log' = Append(log, "postrender")
            /\ UNCHANGED <<graphicsDevice, tick, contextLost, _inFrameUpdate,
                           _destroyRequested, _time, timeScale, maxDeltaTime, frame,
                           frameRequestId, autoRender, renderNextFrame,
                           platformBrowser, rafPending, rafIssued, clock, dt,
                           xrFrame, lastTs, calls, destroyCount, cbDestroy, lastOp,
                           initVars, startVars, renderVars, bakeHooks>>

\* 'postrender' has been fired; render() returns, renderNextFrame = false,
\* 'frameend' is fired
AfterPostRender ==
    /\ pc = "postrender"
    /\ IF graphicsDevice # "device"
       THEN Throw
       ELSE /\ renderNextFrame' = FALSE
            /\ pc' = "frameend"
            /\ log' = log \o <<"frameEnd", "frameend">>
            /\ UNCHANGED <<graphicsDevice, tick, contextLost, _inFrameUpdate,
                           _destroyRequested, _time, timeScale, maxDeltaTime, frame,
                           frameRequestId, autoRender, platformBrowser, rafPending,
                           rafIssued, clock, dt, xrFrame, lastTs, calls, destroyCount,
                           cbDestroy, lastOp, initVars, startVars, renderVars,
                           bakeHooks>>

\* 'frameend' has been fired; the tick function ends
AfterFrameEnd ==
    /\ pc = "frameend"
    /\ TickFinish
    /\ UNCHANGED <<contextLost, _time, timeScale, maxDeltaTime, frame, autoRender,
                   renderNextFrame, platformBrowser, rafIssued, clock, dt, xrFrame, lastTs,
                   calls, cbDestroy, lastOp, initVars, startVars, renderVars, log>>

(***************************************************************************)
(* Specification                                                           *)
(***************************************************************************)
\* the tick function's steps after 'frameupdate' has been fired
TickBody ==
    \/ \E u \in BOOLEAN : AfterFrameUpdate(u)
    \/ AfterUpdate
    \/ AfterFrameRender
    \/ AfterPreRender
    \/ AfterPostRender
    \/ AfterFrameEnd

(***************************************************************************)
(* MaterialHandler: _bindAndAssignAssets and the texture handlers          *)
(***************************************************************************)
\* new MaterialHandler(app): no check of the placeholders
Construct ==
    /\ handler = "none"
    /\ handler' = "constructed"
    /\ repeated' = FALSE
    /\ matOp' = "construct"
    /\ UNCHANGED <<TEXTURES, registry, data, validated, material,
                   _assetReferences, materialLoaded, matArg, loadCalls, updates,
                   handled>>

\* if (dataAssetId && (!materialTexture || !dataValidated || isPlaceHolderTexture))
\* for the data d, with d.validated = v
Takes(name, d, v) ==
    /\ d[name] # NoId
    /\ \/ material[name] = Null
       \/ ~v
       \/ material[name] = GetPlaceholderTexture(name)

\* assetReference.asset: the asset of that id, if the registry has one
HasAsset(id) == registry[id] # "absent"

\* the id the slot's reference is bound to when _bindAndAssignAssets is done
ReferenceAfter(name, d, v) ==
    IF Takes(name, d, v)
    THEN d[name]
    ELSE IF _assetReferences[name] # NoReference
         THEN NoId
         ELSE NoReference

\* the slot's texture when _bindAndAssignAssets is done
TextureAfter(name, d, v) ==
    IF Takes(name, d, v) /\ HasAsset(d[name])
    THEN IF registry[d[name]] = "loaded"
         THEN Resource(d[name])
         ELSE GetPlaceholderTexture(name)
    ELSE material[name]

\* assets.load(assetReference.asset) is called for the slot
LoadsAsset(name, d, v) == Takes(name, d, v) /\ HasAsset(d[name])

FinalInitialize_None(count) == count

\* this._parser.initialize(material, data) at the end of _bindAndAssignAssets:
\* one more initialization of the material than the count so far
FinalInitialize(count) == count + 1

\* _bindAndAssignAssets(materialAsset, assets) with materialAsset.data = d and
\* d.validated = v
Resolve(d, v) ==
    /\ handler = "constructed"
    /\ materialLoaded
    /\ data' = d
    /\ validated' = v
    /\ material' = [n \in TEXTURES |-> TextureAfter(n, d, v)]
    /\ _assetReferences' = [n \in TEXTURES |-> ReferenceAfter(n, d, v)]
    /\ loadCalls' = Cardinality({n \in TEXTURES : LoadsAsset(n, d, v)})
    /\ updates' = FinalInitialize(0)
    /\ handled' = {}
    /\ matOp' = "resolve"
    /\ matArg' = NoId
    /\ repeated' = (matOp = "resolve" /\ d = data /\ v = validated)
    /\ UNCHANGED <<TEXTURES, handler, registry, materialLoaded>>

\* the slots whose reference delivers the registry's events for the asset id
Bound(id) == {n \in TEXTURES : _assetReferences[n] = id}

\* _onTextureLoad: the slot's texture afterwards
OnTextureLoad(name, resource) == resource

\* _onTextureRemoveOrUnload: the slot is reverted
Reverts(name, resource) == materialLoaded /\ material[name] = resource

\* the registry gets the asset: 'add:id'; _onTextureAdd calls assets.load
AssetAdd(id) ==
    /\ registry[id] = "absent"
    /\ registry' = [registry EXCEPT ![id] = "added"]
    /\ handled' = Bound(id)
    /\ loadCalls' = Cardinality(Bound(id))
    /\ updates' = 0
    /\ repeated' = FALSE
    /\ matOp' = "add"
    /\ matArg' = id
    /\ UNCHANGED <<TEXTURES, handler, data, validated, material,
                   _assetReferences, materialLoaded>>

\* the asset's load completes: 'load:id'; _onTextureLoad assigns and updates
AssetLoad(id) ==
    /\ registry[id] = "added"
    /\ registry' = [registry EXCEPT ![id] = "loaded"]
    /\ handled' = Bound(id)
    /\ material' = [n \in TEXTURES |->
                      IF n \in Bound(id)
                      THEN OnTextureLoad(n, Texture(id))
                      ELSE material[n]]
    /\ updates' = Cardinality(Bound(id))
    /\ loadCalls' = 0
    /\ repeated' = FALSE
    /\ matOp' = "load"
    /\ matArg' = id
    /\ UNCHANGED <<TEXTURES, handler, data, validated, _assetReferences,
                   materialLoaded>>

\* _onTextureRemoveOrUnload for the slots bound to id, the asset's resource
\* still in place; a slot that keeps the resource now holds a freed texture
RemoveOrUnload(id) ==
    /\ handled' = Bound(id)
    /\ material' = [n \in TEXTURES |->
                      IF n \in Bound(id) /\ Reverts(n, Resource(id))
                      THEN GetPlaceholderTexture(n)
                      ELSE IF material[n] = Resource(id)
                           THEN Freed(id)
                           ELSE material[n]]
    /\ updates' = Cardinality({n \in Bound(id) : Reverts(n, Resource(id))})
    /\ loadCalls' = 0
    /\ matArg' = id

\* the asset is unloaded: 'unload:id', then its resource is dropped
AssetUnload(id) ==
    /\ registry[id] = "loaded"
    /\ RemoveOrUnload(id)
    /\ registry' = [registry EXCEPT ![id] = "added"]
    /\ repeated' = FALSE
    /\ matOp' = "unload"
    /\ UNCHANGED <<TEXTURES, handler, data, validated,
                   _assetReferences, materialLoaded>>

\* the asset is removed from the registry: 'remove:id'
AssetRemove(id) ==
    /\ registry[id] # "absent"
    /\ RemoveOrUnload(id)
    /\ registry' = [registry EXCEPT ![id] = "absent"]
    /\ repeated' = FALSE
    /\ matOp' = "remove"
    /\ UNCHANGED <<TEXTURES, handler, data, validated,
                   _assetReferences, materialLoaded>>

ErrorHandlers_Bound(id) == Bound(id)

\* the slots with a callback for the asset's 'error': the references are
\* given callbacks for load, add, remove and unload only
ErrorHandlers(id) == {}

\* the asset's load fails: 'error:id'
AssetError(id) ==
    /\ registry[id] = "added"
    /\ handled' = ErrorHandlers(id)
    /\ loadCalls' = 0
    /\ updates' = Cardinality(ErrorHandlers(id))
    /\ repeated' = FALSE
    /\ matOp' = "error"
    /\ matArg' = id
    /\ UNCHANGED <<TEXTURES, handler, registry, data, validated,
                   material, _assetReferences, materialLoaded>>

Unbound_Keeps(reference) == reference

\* a reference once the material is destroyed: unbound
Unbound(reference) ==
    IF reference = NoReference THEN NoReference ELSE NoId

\* the material asset is unloaded: its material is destroyed, which unbinds
\* every reference
MaterialUnload ==
    /\ materialLoaded
    /\ materialLoaded' = FALSE
    /\ _assetReferences' = [n \in TEXTURES |-> Unbound(_assetReferences[n])]
    /\ handled' = {}
    /\ loadCalls' = 0
    /\ updates' = 0
    /\ repeated' = FALSE
    /\ matOp' = "materialUnload"
    /\ matArg' = NoId
    /\ UNCHANGED <<TEXTURES, handler, registry, data, validated,
                   material>>

\* the data a material asset may carry
DataValues == [TEXTURES -> {NoId} \cup AssetIds]

\* the material handler and the asset registry
NextMat ==
    \/ Construct /\ UNCHANGED notMat
    \/ (\E d \in DataValues, v \in BOOLEAN : Resolve(d, v)) /\ UNCHANGED notMat
    \/ (\E id \in AssetIds : AssetAdd(id)) /\ UNCHANGED notMat
    \/ (\E id \in AssetIds : AssetLoad(id)) /\ UNCHANGED notMat
    \/ (\E id \in AssetIds : AssetUnload(id)) /\ UNCHANGED notMat
    \/ (\E id \in AssetIds : AssetRemove(id)) /\ UNCHANGED notMat
    \/ (\E id \in AssetIds : AssetError(id)) /\ UNCHANGED notMat
    \/ MaterialUnload /\ UNCHANGED notMat

SpecMat == Init /\ [][NextMat]_vars

\* the material handler over a list of texture slots that may have a name
\* PLACEHOLDER_MAP has no entry for
SpecConfig == InitConfig /\ [][NextMat]_vars

(***************************************************************************)
(* The cubemap slots of _bindAndAssignAssets and their handlers            *)
(***************************************************************************)
\* the six prefiltered levels: textures.slice(1)
Prefiltered(textures) == [level \in 1 .. 6 |-> textures[level]]

AssignsPrefiltered_First(parameterName, textures) ==
    /\ parameterName = "cubeMap"
    /\ Present(textures[1])

\* _assignCubemap assigns material.prefilteredCubemaps
AssignsPrefiltered(parameterName, textures) ==
    /\ parameterName = "cubeMap"
    /\ \A level \in 1 .. 6 : Present(textures[level])

\* _assignCubemap assigns material.envAtlas
AssignsEnvAtlas(parameterName, textures) ==
    /\ parameterName = "cubeMap"
    /\ ~ \A level \in 1 .. 6 : Present(textures[level])
    /\ Present(textures[1])

\* a call _assignCubemap(parameterName, materialAsset, textures)
Call(parameterName, textures) ==
    [name |-> parameterName, textures |-> textures]

\* the material after the calls of _assignCubemap in the set; no two calls of
\* one operation are for the same slot
AssignCubemap(assigned) ==
    /\ cubeMaterial' =
         [n \in CUBEMAPS |->
             IF \E c \in assigned : c.name = n
             THEN (CHOOSE c \in assigned : c.name = n).textures[0]
             ELSE cubeMaterial[n]]
    /\ prefilteredCubemaps' =
         IF \E c \in assigned : AssignsPrefiltered(c.name, c.textures)
         THEN Prefiltered((CHOOSE c \in assigned :
                              AssignsPrefiltered(c.name, c.textures)).textures)
         ELSE prefilteredCubemaps
    /\ envAtlas' =
         IF \E c \in assigned : AssignsEnvAtlas(c.name, c.textures)
         THEN (CHOOSE c \in assigned :
                  AssignsEnvAtlas(c.name, c.textures)).textures[1]
         ELSE envAtlas
    /\ cubeAssigned' = assigned

\* the cubemap loop takes the slot: data[name] && !data.prefilteredCubeMap128
CubeTakes(name, d, p) == d[name] # NoId /\ ~Present(p)

\* the cubemap loop of _bindAndAssignAssets(materialAsset, assets) with
\* materialAsset.data = d and d.prefilteredCubeMap128 = p
CubeResolve(d, p) ==
    /\ cubeData' = d
    /\ prefilteredCubeMap128' = p
    /\ cubeReferences' =
         [n \in CUBEMAPS |->
             IF CubeTakes(n, d, p) THEN d[n] ELSE cubeReferences[n]]
    /\ AssignCubemap({Call(n, CubeResources(d[n])) :
                        n \in {m \in CUBEMAPS :
                                 /\ CubeTakes(m, d, p)
                                 /\ cubeRegistry[d[m]] \in CubeShapes}})
    /\ cubeUpdates' = FinalInitialize(0)
    /\ cubeOp' = "resolve"
    /\ cubeArg' = NoId
    /\ cubeHandled' = {}
    /\ UNCHANGED cubeRegistry

\* the slots whose reference delivers the events of the cubemap asset
CubeBound(id) == {n \in CUBEMAPS : cubeReferences[n] = id}

\* the registry gets the cubemap asset: _onCubemapAdd asks for its load
CubeAdd(id) ==
    /\ cubeRegistry[id] = "absent"
    /\ cubeRegistry' = [cubeRegistry EXCEPT ![id] = "added"]
    /\ cubeOp' = "add"
    /\ cubeArg' = id
    /\ cubeHandled' = CubeBound(id)
    /\ cubeAssigned' = {}
    /\ cubeUpdates' = 0
    /\ UNCHANGED <<cubeData, prefilteredCubeMap128, cubeMaterial,
                   prefilteredCubemaps, envAtlas, cubeReferences>>

\* the cubemap asset is loaded with the levels of the shape: _onCubemapLoad
CubeLoad(id, shape) ==
    /\ cubeRegistry[id] = "added"
    /\ cubeRegistry' = [cubeRegistry EXCEPT ![id] = shape]
    /\ AssignCubemap({Call(n, [level \in Levels |->
                                  IF HasLevel(shape, level)
                                  THEN CubeTexture(id, level)
                                  ELSE CubeNull]) : n \in CubeBound(id)})
    /\ cubeUpdates' = Cardinality(CubeBound(id))
    /\ cubeOp' = "load"
    /\ cubeArg' = id
    /\ cubeHandled' = CubeBound(id)
    /\ UNCHANGED <<cubeData, prefilteredCubeMap128, cubeReferences>>

\* _onCubemapRemoveOrUnload clears the slot:
\* materialAsset.data.prefilteredCubeMap128 === cubemapAsset.resources[1]
CubeReverts(id) == prefilteredCubeMap128 = CubeResources(id)[1]

\* the value once the textures of the asset have been freed
Stale(value, id) ==
    IF value.kind = "cubemap" /\ value.asset = id
    THEN CubeFreed(id, value.level)
    ELSE value

\* 'remove' or 'unload' of the cubemap asset: _onCubemapRemoveOrUnload for
\* the slots bound to it, then the asset's textures are gone
CubeRemoveOrUnload(id) ==
    LET reverted == IF CubeReverts(id) THEN CubeBound(id) ELSE {} IN
    /\ cubeMaterial' =
         [n \in CUBEMAPS |->
             IF n \in reverted THEN CubeNull ELSE Stale(cubeMaterial[n], id)]
    /\ prefilteredCubemaps' =
         [level \in DOMAIN prefilteredCubemaps |->
             Stale(prefilteredCubemaps[level], id)]
    /\ envAtlas' = Stale(envAtlas, id)
    /\ cubeAssigned' = {Call(n, SevenNulls) : n \in reverted}
    /\ cubeUpdates' = Cardinality(reverted)
    /\ cubeArg' = id
    /\ cubeHandled' = CubeBound(id)
    /\ UNCHANGED <<cubeData, prefilteredCubeMap128, cubeReferences>>

\* the cubemap asset is unloaded and stays in the registry
CubeUnload(id) ==
    /\ cubeRegistry[id] \in CubeShapes
    /\ CubeRemoveOrUnload(id)
    /\ cubeRegistry' = [cubeRegistry EXCEPT ![id] = "added"]
    /\ cubeOp' = "unload"

\* the cubemap asset is removed from the registry
CubeRemove(id) ==
    /\ cubeRegistry[id] # "absent"
    /\ CubeRemoveOrUnload(id)
    /\ cubeRegistry' = [cubeRegistry EXCEPT ![id] = "absent"]
    /\ cubeOp' = "remove"

\* the data a material asset may carry for its cubemap slots
CubeDataValues == [CUBEMAPS -> {NoId} \cup CubeIds]

\* the values of data.prefilteredCubeMap128
Prefiltered128Values == {CubeUndefined, CubeNull, CubeId(1)}

\* the cubemap slots and the registry of cubemap assets
NextCube ==
    \/ (\E d \in CubeDataValues, p \in Prefiltered128Values : CubeResolve(d, p))
         /\ UNCHANGED notCube
    \/ (\E id \in CubeIds : CubeAdd(id)) /\ UNCHANGED notCube
    \/ (\E id \in CubeIds, shape \in CubeShapes : CubeLoad(id, shape))
         /\ UNCHANGED notCube
    \/ (\E id \in CubeIds : CubeUnload(id)) /\ UNCHANGED notCube
    \/ (\E id \in CubeIds : CubeRemove(id)) /\ UNCHANGED notCube

SpecCube == Init /\ [][NextCube]_vars

(***************************************************************************)
(* Construction, init, tick and destroy of the page's applications         *)
(***************************************************************************)
\* AppBase.getApplication(id)
GetApplication(id) ==
    IF id # "" THEN _applications[id] ELSE currentApplication

\* new AppBase(canvas) with canvas.id = id
NewApp(a, id) ==
    /\ canvas[a] = NoCanvas
    /\ canvas' = [canvas EXCEPT ![a] = id]
    /\ _applications' = [_applications EXCEPT ![id] = a]
    /\ currentApplication' = a
    /\ lookupOp' = <<"new", a>>
    /\ UNCHANGED <<deviceCanvas, device, inFrameUpdate, destroyAsked>>

\* a.init(appOptions) with appOptions.graphicsDevice.canvas.id = id
InitDevice(a, id) ==
    /\ canvas[a] # NoCanvas
    /\ device[a] = "undefined"
    /\ device' = [device EXCEPT ![a] = "device"]
    /\ deviceCanvas' = [deviceCanvas EXCEPT ![a] = id]
    /\ lookupOp' = <<"init", a>>
    /\ UNCHANGED <<_applications, currentApplication, canvas, inFrameUpdate,
                   destroyAsked>>

\* getApplication() === this
ClearsCurrent(a) == currentApplication = a

\* const canvasId = this.graphicsDevice.canvas.id
ClearedEntry(a) == deviceCanvas[a]

\* the destroy sequence of a: its entry and the current application
DestroySequence(a) ==
    /\ device' = [device EXCEPT ![a] = "null"]
    /\ _applications' = [_applications EXCEPT ![ClearedEntry(a)] = "null"]
    /\ currentApplication' =
         IF ClearsCurrent(a) THEN "null" ELSE currentApplication

\* a.destroy(): deferred inside a's own tick; throws a TypeError without a
\* graphics device
DestroyApp(a) ==
    /\ canvas[a] # NoCanvas
    /\ IF inFrameUpdate[a]
       THEN /\ destroyAsked' = [destroyAsked EXCEPT ![a] = TRUE]
            /\ lookupOp' = <<"deferred", a>>
            /\ UNCHANGED <<_applications, currentApplication, device>>
       ELSE IF device[a] = "device"
       THEN /\ DestroySequence(a)
            /\ lookupOp' = <<"destroy", a>>
            /\ UNCHANGED destroyAsked
       ELSE /\ lookupOp' = <<"throw", a>>
            /\ UNCHANGED <<_applications, currentApplication, device,
                           destroyAsked>>
    /\ UNCHANGED <<canvas, deviceCanvas, inFrameUpdate>>

\* no tick function is executing
NoTick == \A a \in Apps : ~inFrameUpdate[a]

\* a's tick function is called and runs up to its handlers
TickEnter(a) ==
    /\ NoTick
    /\ device[a] = "device"
    /\ inFrameUpdate' = [inFrameUpdate EXCEPT ![a] = TRUE]
    /\ currentApplication' = a
    /\ lookupOp' = <<"tick", a>>
    /\ UNCHANGED <<_applications, canvas, deviceCanvas, device, destroyAsked>>

\* a's tick function has run its handlers and returns
TickLeave(a) ==
    /\ inFrameUpdate[a]
    /\ inFrameUpdate' = [inFrameUpdate EXCEPT ![a] = FALSE]
    /\ IF destroyAsked[a]
       THEN /\ DestroySequence(a)
            /\ lookupOp' = <<"destroy", a>>
       ELSE /\ lookupOp' = <<"ticked", a>>
            /\ UNCHANGED <<_applications, currentApplication, device>>
    /\ UNCHANGED <<canvas, deviceCanvas, destroyAsked>>

\* the applications of the page
NextLookup ==
    \/ (\E a \in Apps, id \in CanvasIds : NewApp(a, id)) /\ UNCHANGED notLookup
    \/ (\E a \in Apps, id \in CanvasIds : InitDevice(a, id))
         /\ UNCHANGED notLookup
    \/ (\E a \in Apps : DestroyApp(a)) /\ UNCHANGED notLookup
    \/ (\E a \in Apps : TickEnter(a)) /\ UNCHANGED notLookup
    \/ (\E a \in Apps : TickLeave(a)) /\ UNCHANGED notLookup

SpecLookup == Init /\ [][NextLookup]_vars

(***************************************************************************)
(* preload(callback) and the 'load' and 'error' events of its assets       *)
(***************************************************************************)
\* if (loadedCount === assets.length)
Finishes(count, assets) == count = Cardinality(assets)

\* onAssetLoadOrError is called a number of times in a row: the counter, and
\* 'preload:end' with the callback when the counter meets the length
OnAssetLoadOrError(times, assets, nowSettled) ==
    LET ending == {k \in 1 .. times : Finishes(loadedCount + k, assets)} IN
    /\ loadedCount' = loadedCount + times
    /\ preloadEnds' = preloadEnds + Cardinality(ending)
    /\ preloadCallbacks' = preloadCallbacks + Cardinality(ending)
    /\ endedSettled' = (endedSettled /\ (ending = {} \/ nowSettled = assets))

\* app.preload(callback) with the assets marked preload, some loaded already
Preload(assets, loaded) ==
    /\ preloadOp = "none"
    /\ preloadAssets' = assets
    /\ preloadOp' = "preload"
    /\ fires' = 0
    /\ settled' = loaded
    /\ IF assets = {}
       THEN /\ preloadEnds' = preloadEnds + 1
            /\ preloadCallbacks' = preloadCallbacks + 1
            /\ UNCHANGED <<loadedCount, loadOnce, errorOnce, endedSettled>>
       ELSE /\ loadOnce' = assets \ loaded
            /\ errorOnce' = assets \ loaded
            /\ OnAssetLoadOrError(Cardinality(loaded), assets, loaded)

\* the asset fires 'load': its once('load') handler, if still registered
FireLoad(asset) ==
    /\ preloadOp # "none"
    /\ fires < MaxFires
    /\ fires' = fires + 1
    /\ settled' = settled \cup ({asset} \cap preloadAssets)
    /\ loadOnce' = loadOnce \ {asset}
    /\ IF asset \in loadOnce
       THEN OnAssetLoadOrError(1, preloadAssets, settled')
       ELSE UNCHANGED <<loadedCount, preloadEnds, preloadCallbacks, endedSettled>>
    /\ preloadOp' = "load"
    /\ UNCHANGED <<preloadAssets, errorOnce>>

\* the asset fires 'error': its once('error') handler, if still registered
FireError(asset) ==
    /\ preloadOp # "none"
    /\ fires < MaxFires
    /\ fires' = fires + 1
    /\ settled' = settled \cup ({asset} \cap preloadAssets)
    /\ errorOnce' = errorOnce \ {asset}
    /\ IF asset \in errorOnce
       THEN OnAssetLoadOrError(1, preloadAssets, settled')
       ELSE UNCHANGED <<loadedCount, preloadEnds, preloadCallbacks, endedSettled>>
    /\ preloadOp' = "error"
    /\ UNCHANGED <<preloadAssets, loadOnce>>

\* preload() and the events of the assets
NextPreload ==
    \/ (\E assets \in SUBSET PreloadIds :
          \E loaded \in SUBSET assets : Preload(assets, loaded))
         /\ UNCHANGED notPreload
    \/ (\E asset \in PreloadIds : FireLoad(asset)) /\ UNCHANGED notPreload
    \/ (\E asset \in PreloadIds : FireError(asset)) /\ UNCHANGED notPreload

SpecPreload == Init /\ [][NextPreload]_vars

(***************************************************************************)
(* _loadLibraries(urls, callback) and the loads of the libraries           *)
(***************************************************************************)
\* _loadLibraries(urls, callback) with urls.length = len: a load is started
\* for every url; without urls the libraries are loaded at once
LoadLibraries(len) ==
    /\ libLen = NotCalled
    /\ libLen' = len
    /\ libCount' = len
    /\ libFailed' = FALSE
    /\ IF len # 0
       THEN UNCHANGED <<libReported, librariesLoaded>>
       ELSE /\ librariesLoaded' = librariesLoaded + 1
            /\ libReported' = Append(libReported, "null")

\* else if (count === 0), with n the count after the decrement
Succeeds(n, err) == ~err /\ n = 0

\* a load calls back onLoad(err, script), with an error or without
OnLoad(err) ==
    /\ libLen # NotCalled
    /\ libCount > 0
    /\ libCount' = libCount - 1
    /\ libFailed' = (libFailed \/ err)
    /\ IF err
       THEN /\ libReported' = Append(libReported, "err")
            /\ UNCHANGED librariesLoaded
       ELSE IF Succeeds(libCount - 1, err)
       THEN /\ librariesLoaded' = librariesLoaded + 1
            /\ libReported' = Append(libReported, "null")
       ELSE UNCHANGED <<libReported, librariesLoaded>>
    /\ UNCHANGED libLen

\* _loadLibraries and the loads it starts
NextLib ==
    \/ (\E len \in 0 .. MaxLibs : LoadLibraries(len)) /\ UNCHANGED notLib
    \/ (\E err \in BOOLEAN : OnLoad(err)) /\ UNCHANGED notLib

SpecLib == Init /\ [][NextLib]_vars

(***************************************************************************)
(* setSkybox(asset) and the 'load' and 'remove' events of the registry     *)
(***************************************************************************)
\* this.assets.off(name, callback, this): the handlers of the event left
\* once those registered with this very callback are removed
Off(handlers, id, closure) == handlers \ {<<id, closure>>}

\* the fields and handlers after setSkybox(asset), closure being the call
SkyboxAfter(asset, closure) ==
    LET cleanLoad == IF _skyboxAsset # NoId
                     THEN Off(loadHandlers, _skyboxAsset, closure)
                     ELSE loadHandlers
        cleanRemove == IF _skyboxAsset # NoId
                       THEN Off(removeHandlers, _skyboxAsset, closure)
                       ELSE removeHandlers
    IN  /\ _skyboxAsset' = asset
        /\ loadHandlers' =
             IF asset # NoId THEN cleanLoad \cup {<<asset, closure>>} ELSE cleanLoad
        /\ removeHandlers' =
             IF asset # NoId THEN cleanRemove \cup {<<asset, closure>>}
             ELSE cleanRemove
        \* onSkyboxChanged()
        /\ sceneSkybox' = asset
        /\ closures' = closure

\* app.setSkybox(asset), asset being an asset id or 0 for null
SetSkybox(asset) ==
    /\ closures < MaxClosures
    /\ IF asset # _skyboxAsset
       THEN SkyboxAfter(asset, closures + 1)
       ELSE UNCHANGED <<_skyboxAsset, sceneSkybox, loadHandlers, removeHandlers,
                        closures>>
    /\ skyOp' = "set"
    /\ skyArg' = asset

\* the registry fires `load:${id}`: every handler of it runs onSkyboxChanged
SkyboxLoad(id) ==
    /\ skyOp # "none"
    /\ sceneSkybox' =
         IF \E h \in loadHandlers : h[1] = id THEN _skyboxAsset ELSE sceneSkybox
    /\ skyOp' = "load"
    /\ skyArg' = id
    /\ UNCHANGED <<_skyboxAsset, loadHandlers, removeHandlers, closures>>

\* the registry fires `remove:${id}`: every one-shot handler of it is taken
\* off and runs onSkyboxRemoved, that is setSkybox(null); the first of them
\* to find a skybox asset clears it, the others find null
SkyboxRemove(id) ==
    LET fired == {h \in removeHandlers : h[1] = id}
        kept == removeHandlers \ fired
    IN  /\ skyOp # "none"
        /\ closures < MaxClosures
        /\ IF fired # {} /\ _skyboxAsset # NoId
           THEN /\ _skyboxAsset' = NoId
                /\ sceneSkybox' = NoId
                /\ loadHandlers' = Off(loadHandlers, _skyboxAsset, closures + 1)
                /\ removeHandlers' = Off(kept, _skyboxAsset, closures + 1)
                /\ closures' = closures + 1
           ELSE /\ removeHandlers' = kept
                /\ UNCHANGED <<_skyboxAsset, sceneSkybox, loadHandlers, closures>>
        /\ skyOp' = "remove"
        /\ skyArg' = id

\* setSkybox and the registry's events
NextSky ==
    \/ (\E asset \in {NoId} \cup SkyboxIds : SetSkybox(asset)) /\ UNCHANGED notSky
    \/ (\E id \in SkyboxIds : SkyboxLoad(id)) /\ UNCHANGED notSky
    \/ (\E id \in SkyboxIds : SkyboxRemove(id)) /\ UNCHANGED notSky

SpecSky == Init /\ [][NextSky]_vars

(***************************************************************************)
(* Mouse: attach, detach, the button events and update()                   *)
(***************************************************************************)
\* mouse.attach(element)
Attach(element) ==
    /\ _target' = element
    /\ IF _attached
       THEN UNCHANGED <<_attached, windowListeners>>
       ELSE /\ _attached' = TRUE
            /\ windowListeners' = windowListeners \cup MouseEvents
    /\ mouseOp' = "attach"
    /\ UNCHANGED <<_buttons, _lastbuttons, held, updatesSince, pressedIn>>

Removed_ButWheel == MouseEvents \ {"wheel"}

\* the listeners detach() removes from window
Removed == MouseEvents

\* mouse.detach()
Detach ==
    /\ IF ~_attached
       THEN UNCHANGED <<_attached, _target, windowListeners>>
       ELSE /\ _attached' = FALSE
            /\ _target' = "null"
            /\ windowListeners' = windowListeners \ Removed
    /\ mouseOp' = "detach"
    /\ UNCHANGED <<_buttons, _lastbuttons, held, updatesSince, pressedIn>>

\* the user presses the button: window dispatches 'mousedown' to _handleDown
MouseDown(button) ==
    /\ ~held[button]
    /\ held' = [held EXCEPT ![button] = TRUE]
    /\ IF "mousedown" \in windowListeners
       THEN /\ _buttons' = [_buttons EXCEPT ![button] = TRUE]
            /\ updatesSince' = [updatesSince EXCEPT ![button] = 0]
            /\ pressedIn' = [pressedIn EXCEPT ![button] = {}]
       ELSE UNCHANGED <<_buttons, updatesSince, pressedIn>>
    /\ mouseOp' = "down"
    /\ UNCHANGED <<_lastbuttons, _target, _attached, windowListeners>>

\* the user releases the button: window dispatches 'mouseup' to _handleUp
MouseUp(button) ==
    /\ held[button]
    /\ held' = [held EXCEPT ![button] = FALSE]
    /\ IF "mouseup" \in windowListeners
       THEN /\ _buttons' = [_buttons EXCEPT ![button] = FALSE]
            /\ updatesSince' = [updatesSince EXCEPT ![button] = 0]
            /\ pressedIn' = [pressedIn EXCEPT ![button] = {}]
       ELSE UNCHANGED <<_buttons, updatesSince, pressedIn>>
    /\ mouseOp' = "up"
    /\ UNCHANGED <<_lastbuttons, _target, _attached, windowListeners>>

\* mouse.wasPressed(button)
WasPressed(button) == _buttons[button] /\ ~_lastbuttons[button]

\* mouse.update(): this._lastbuttons[i] = this._buttons[i]
Copied(current, last) == current

\* the update phase of a tick: the components' update reads wasPressed, then
\* inputUpdate calls mouse.update()
UpdatePhase ==
    /\ \A b \in Buttons : updatesSince[b] < MaxSince
    /\ updatesSince' =
         [b \in Buttons |->
             IF _buttons[b] THEN updatesSince[b] + 1 ELSE updatesSince[b]]
    /\ pressedIn' =
         [b \in Buttons |->
             IF _buttons[b] /\ WasPressed(b)
             THEN pressedIn[b] \cup {updatesSince[b] + 1}
             ELSE pressedIn[b]]
    /\ _lastbuttons' = Copied(_buttons, _lastbuttons)
    /\ mouseOp' = "update"
    /\ UNCHANGED <<_buttons, _target, _attached, windowListeners, held>>

\* the mouse of an application, its user and the application's ticks
NextMouse ==
    \/ (\E element \in Elements : Attach(element)) /\ UNCHANGED notMouse
    \/ Detach /\ UNCHANGED notMouse
    \/ (\E button \in Buttons : MouseDown(button)) /\ UNCHANGED notMouse
    \/ (\E button \in Buttons : MouseUp(button)) /\ UNCHANGED notMouse
    \/ UpdatePhase /\ UNCHANGED notMouse

SpecMouse == Init /\ [][NextMouse]_vars

(***************************************************************************)
(* The application's specifications                                       *)
(***************************************************************************)
\* the lifecycle: one init() without a lightmapper, one start(), destroy,
\* context loss and the render switches
Next ==
    \/ (inits = 0 /\ AppInit(FALSE)) /\ UNCHANGED notApp
    \/ (startCalls = 0 /\ Start) /\ UNCHANGED notApp
    \/ (DestroyCall) /\ UNCHANGED notApp
    \/ (\E a \in BOOLEAN, r \in BOOLEAN : SetRender(a, r)) /\ UNCHANGED notApp
    \/ (\E b \in BOOLEAN : SetContextLost(b)) /\ UNCHANGED notApp
    \/ (\E r \in rafPending, t \in LifeTimestamps \ {Undefined} : RafFire(r, t)) /\ UNCHANGED notApp
    \/ (\E t \in LifeTimestamps, x \in BOOLEAN : TickCall(t, x)) /\ UNCHANGED notApp
    \/ (TickBody) /\ UNCHANGED notApp

Spec == Init /\ [][Next]_vars

\* the frame clock: every timestamp, timeScale and maxDeltaTime, on an
\* application that is not destroyed
NextClock ==
    \/ (inits = 0 /\ AppInit(FALSE)) /\ UNCHANGED notApp
    \/ (startCalls = 0 /\ Start) /\ UNCHANGED notApp
    \/ (\E s \in TimeScales : SetTimeScale(s)) /\ UNCHANGED notApp
    \/ (\E m \in MaxDeltaTimes : SetMaxDeltaTime(m)) /\ UNCHANGED notApp
    \/ (\E r \in rafPending, t \in Timestamps \ {Undefined} : RafFire(r, t)) /\ UNCHANGED notApp
    \/ (\E t \in Timestamps : TickCall(t, FALSE)) /\ UNCHANGED notApp
    \/ (TickBody) /\ UNCHANGED notApp

SpecClock == Init /\ [][NextClock]_vars

\* start-up: init() and start() called any number of times, in any order, with
\* or without a lightmapper, and the frames the browser then delivers
NextStart ==
    \/ (\E lm \in BOOLEAN : AppInit(lm)) /\ UNCHANGED notApp
    \/ (Start) /\ UNCHANGED notApp
    \/ (DestroyCall) /\ UNCHANGED notApp
    \/ (\E a \in BOOLEAN, r \in BOOLEAN : SetRender(a, r)) /\ UNCHANGED notApp
    \/ (\E r \in rafPending, t \in LifeTimestamps \ {Undefined} : RafFire(r, t)) /\ UNCHANGED notApp
    \/ (TickBody) /\ UNCHANGED notApp

SpecStart == Init /\ [][NextStart]_vars

(***************************************************************************)
(* Deferred and immediate destroy                                          *)
(***************************************************************************)
\* C1: a destroy() called from a handler while a tick is executing tears
\* nothing down inside the tick's body; the destroy sequence runs when that
\* tick ends, with _inFrameUpdate cleared, and never more than once.
C1_DeferredDestroyOnce ==
    [][/\ (pc # "idle" /\ pc' # "idle")
            => (destroyCount' = destroyCount /\ graphicsDevice' = graphicsDevice)
       /\ (destroyCount' # destroyCount)
            => (destroyCount' = 1 /\ pc' = "idle" /\ ~_inFrameUpdate')
       /\ (cbDestroy' /\ pc # "idle" /\ pc' = "idle")
            => (destroyCount' = 1 /\ graphicsDevice' = "null")]_vars

\* a later tick was invoked after a destroy deferred from a handler had run
C1_Witness ==
    /\ cbDestroy
    /\ destroyCount = 1
    /\ lastOp = "tickGuard"

\* C2: when no tick is executing, destroy() destroys the application before
\* it returns.
C2_ImmediateDestroy ==
    (lastOp = "destroy" /\ pc = "idle" /\ graphicsDevice # "undefined")
        => graphicsDevice = "null"

\* C3: _inFrameUpdate is false whenever no tick is executing, also after a
\* tick that found the context lost.
C3_InFrameClearedWhenIdle ==
    pc = "idle" => ~_inFrameUpdate

(***************************************************************************)
(* Frame requests                                                          *)
(***************************************************************************)
\* C4: at most one frame request is outstanding at any time.
C4_AtMostOneRequest ==
    Cardinality(rafPending) <= 1

\* the second tick invocation was a direct call made while the first
\* invocation's request was outstanding: that request was cancelled
C4_Witness ==
    /\ calls = 2
    /\ lastOp = "tick"
    /\ rafIssued = 2
    /\ rafPending = {2}

\* C5 as stated: after every tick of a live application exactly one frame
\* request is outstanding.
C5_ExactlyOneRequest ==
    (pc = "idle" /\ calls >= 1 /\ graphicsDevice = "device")
        => Cardinality(rafPending) = 1

\* C5 amended: exactly one on a browser or worker platform, none elsewhere.
C5_OneRequestOnBrowser ==
    (pc = "idle" /\ calls >= 1 /\ graphicsDevice = "device")
        => Cardinality(rafPending) = (IF platformBrowser THEN 1 ELSE 0)

\* several consecutive ticks have returned on a browser platform
C5_Witness ==
    /\ pc = "idle"
    /\ calls >= 3
    /\ graphicsDevice = "device"
    /\ platformBrowser
    /\ rafPending = {rafIssued}

\* C6: once destroy() has completed no frame request is outstanding (so none
\* has been issued since) and frameRequestId is cleared.
C6_NoRequestAfterDestroy ==
    graphicsDevice = "null" => (rafPending = {} /\ frameRequestId = 0)

\* the only tick invocation issued a request, which destroy() cancelled
C6_Witness ==
    /\ graphicsDevice = "null"
    /\ calls = 1
    /\ rafIssued = 1

\* C7: an invocation of the tick function after destroy() has completed
\* changes nothing: no body step, no frame request, no frame counted.
C7_TickAfterDestroyNoOp ==
    [][(graphicsDevice = "null" /\ calls' # calls)
         => /\ pc' = "idle"
            /\ UNCHANGED <<graphicsDevice, tick, _inFrameUpdate, _destroyRequested,
                           _time, frame, frameRequestId, renderNextFrame,
                           rafPending, rafIssued, dt, destroyCount>>]_vars

\* the tick function was invoked on a destroyed application
C7_Witness ==
    /\ graphicsDevice = "null"
    /\ lastOp = "tickGuard"

(***************************************************************************)
(* The frame clock                                                         *)
(***************************************************************************)
\* the delta the clock is specified to emit for the timestamps prev and cur
\* (prev = 0: no previous timestamp)
ClockDt(prev, cur, scale, maxDelta) ==
    IF prev = 0 THEN 0 ELSE Clamp(cur - prev, 0, maxDelta) * scale

\* a tick computes its delta in this step
ComputesDt == calls' # calls /\ graphicsDevice = "device"

\* C8: with timeScale >= 0 and maxDeltaTime >= 0 the delta of a tick lies in
\* [0, maxDeltaTime * timeScale] and is determined by the previous timestamp,
\* the tick's timestamp, timeScale and maxDeltaTime.
C8_DtBoundedAndDetermined ==
    [][(ComputesDt /\ timeScale >= 0 /\ maxDeltaTime >= 0 /\ lastTs' # Undefined)
         => /\ 0 <= dt'
            /\ dt' <= maxDeltaTime * timeScale
            /\ dt' = ClockDt(_time, lastTs', timeScale, maxDeltaTime)]_vars

\* C9 as stated (taken for the time scales >= 0): the scaled delta lies in
\* [0, maxDeltaTime], whatever the timeScale.
C9_DtAtMostMaxDelta ==
    [][(ComputesDt /\ maxDeltaTime >= 0 /\ timeScale >= 0)
         => (0 <= dt' /\ dt' <= maxDeltaTime * ScaleUnit)]_vars

\* C9 amended: for 0 <= timeScale <= 1 the scaled delta lies in
\* [0, maxDeltaTime]; for a larger timeScale it lies in
\* [0, maxDeltaTime * timeScale].
C9_DtAtMostScaledMaxDelta ==
    [][(ComputesDt /\ maxDeltaTime >= 0 /\ timeScale >= 0)
         => /\ 0 <= dt'
            /\ timeScale <= ScaleUnit => dt' <= maxDeltaTime * ScaleUnit
            /\ timeScale > ScaleUnit => dt' <= maxDeltaTime * timeScale]_vars

\* a tick was clamped to maxDeltaTime with timeScale 1/2
C9_Witness ==
    /\ calls >= 2
    /\ timeScale = 1
    /\ maxDeltaTime = 100
    /\ dt = 100
    /\ lastTs = 5000

\* C10: for non-decreasing timestamps the first tick yields 0, every later
\* tick clamp((t_k - t_(k-1)) / 1000, 0, maxDeltaTime) * timeScale, and the
\* stored time after tick k is t_k (taken for maxDeltaTime >= 0).
C10_DtOfTimestampSequence ==
    [][(/\ ComputesDt
        /\ maxDeltaTime >= 0
        /\ lastTs' # Undefined
        /\ (calls = 0 \/ (lastTs # Undefined /\ lastTs <= lastTs')))
         => /\ _time' = lastTs'
            /\ dt' = (IF calls = 0 THEN 0
                      ELSE Clamp(lastTs' - lastTs, 0, maxDeltaTime) * timeScale)]_vars

\* C11: a tick whose timestamp is equal to or earlier than the previous
\* tick's timestamp yields dt = 0 (taken for maxDeltaTime >= 0).
C11_NoDeltaForStaleTimestamp ==
    [][(/\ ComputesDt
        /\ maxDeltaTime >= 0
        /\ lastTs # Undefined
        /\ lastTs' # Undefined
        /\ lastTs' <= lastTs)
         => dt' = 0]_vars

(***************************************************************************)
(* Order of the steps of a tick                                            *)
(***************************************************************************)
\* position in log of the step e of the latest start() or tick, 0 if absent
Pos(e) ==
    IF \E i \in 1..Len(log) : log[i] = e
    THEN CHOOSE i \in 1..Len(log) : log[i] = e
    ELSE 0

Logged(e) == Pos(e) > 0

Before(a, b) == Logged(a) /\ Logged(b) /\ Pos(a) < Pos(b)

\* C12 as stated: in a tick that is not skipped the input devices are updated
\* first, then the systems' update, then their postUpdate.
C12_InputFirst ==
    Logged("sys:update")
        => /\ Before("inputUpdate", "sys:update")
           /\ Before("sys:update", "sys:postUpdate")

\* C12 as the code has it: the systems' update, animationUpdate and postUpdate,
\* then the application's 'update' event, then the input devices, last.
C12_InputLast ==
    Logged("sys:update")
        => /\ Before("sys:update", "sys:animationUpdate")
           /\ Before("sys:animationUpdate", "sys:postUpdate")
           /\ Before("sys:postUpdate", "update")
           /\ Before("update", "inputUpdate")
           /\ ~Logged("framerender") \/ Before("inputUpdate", "framerender")

\* the update phase of a tick delivered by the browser has run
C12_Witness ==
    pc = "framerender" /\ lastOp = "raf" /\ Logged("inputUpdate")

(***************************************************************************)
(* Update and render phases                                                *)
(***************************************************************************)
\* C13: in a tick that is not skipped the update phase runs; after
\* 'framerender' the render phase runs if and only if autoRender or
\* renderNextFrame is true at that point, and nowhere else; when the render
\* is done renderNextFrame is false, so with autoRender off each render has
\* used up a renderNextFrame request.
C13_RenderIffRequested ==
    [][/\ (pc = "frameupdate" /\ pc' \notin {"frameupdate", "idle"})
            => (pc' = "update" /\ frame' = frame + 1)
       /\ (pc = "framerender" /\ pc' \in {"prerender", "frameend"})
            => /\ (pc' = "prerender") <=> (autoRender \/ renderNextFrame)
               /\ renders' = (IF autoRender \/ renderNextFrame
                              THEN renders + 1 ELSE renders)
       /\ (renders' # renders) => (pc = "framerender" /\ pc' = "prerender")
       /\ (pc = "postrender" /\ pc' = "frameend") => ~renderNextFrame'
       /\ (pc' = "frameend") => Logged("sys:update")'
       /\ (renders' # renders /\ ~autoRender) => renderNextFrame]_vars

\* with autoRender off one render was made, and a later tick has updated
\* without rendering
C13_Witness ==
    /\ ~autoRender /\ ~renderNextFrame
    /\ renders = 1
    /\ calls >= 3
    /\ pc = "frameend"
    /\ Logged("sys:update") /\ ~Logged("prerender")

(***************************************************************************)
(* Lost render context                                                     *)
(***************************************************************************)
\* a tick function call that gets past its guard
TickRuns == calls' = calls + 1 /\ graphicsDevice = "device"

\* the tick has run nothing of the frame's logic
NoFrameLogic ==
    /\ pc = "idle"
    /\ Logged("request")
    /\ \A e \in {"stats", "frameupdate", "sys:update", "inputUpdate", "framerender",
                 "prerender", "postrender", "frameend"} : ~Logged(e)

\* C14 as stated: while the context is lost every tick still issues the next
\* frame request, and runs neither update nor render nor fires 'frameupdate',
\* 'framerender' or 'frameend'; with the context recovered the tick runs the
\* body again.
C14_LostContextKeepsRequesting ==
    [][/\ (TickRuns /\ contextLost)
            => /\ NoFrameLogic'
               /\ renders' = renders
               /\ (lastOp' # "start" => frame' = frame)
               /\ frameRequestId' # 0
               /\ frameRequestId' # frameRequestId
               /\ frameRequestId' \in rafPending'
       /\ (TickRuns /\ ~contextLost)
            => (pc' = "frameupdate" /\ Logged("frameupdate")')]_vars

\* C14 amended: the next frame request is issued on a browser or worker
\* platform; elsewhere a tick issues none, lost context or not.
C14_LostContextSkipsBody ==
    [][/\ (TickRuns /\ contextLost)
            => /\ NoFrameLogic'
               /\ renders' = renders
               /\ (lastOp' # "start" => frame' = frame)
               /\ platformBrowser
                    => /\ frameRequestId' # 0
                       /\ frameRequestId' # frameRequestId
                       /\ rafPending' = {frameRequestId'}
               /\ ~platformBrowser => (frameRequestId' = 0 /\ rafPending' = {})
       /\ (TickRuns /\ ~contextLost)
            => (pc' = "frameupdate" /\ Logged("frameupdate")')]_vars

\* a second tick in a row has returned early on a lost context and left a frame
\* request outstanding
C14_Witness ==
    /\ NoFrameLogic
    /\ contextLost
    /\ graphicsDevice = "device"
    /\ platformBrowser
    /\ Logged("cancel")
    /\ lastOp = "raf"
    /\ rafPending = {frameRequestId}

(***************************************************************************)
(* Place of the frame request in a tick                                    *)
(***************************************************************************)
\* the steps of this frame's logic
FrameLogic ==
    {"stats", "frameupdate", "sys:update", "sys:animationUpdate", "sys:postUpdate",
     "update", "inputUpdate", "framerender", "frameStart", "prerender",
     "postrender", "frameEnd", "frameend"}

\* C15: in every tick the next frame request is issued after the stored
\* request has been cancelled and the frame delta computed, and before any
\* of this frame's logic (stats, 'frameupdate', update, render) runs.
C15_RequestBeforeFrameLogic ==
    Logged("request")
        => /\ Before("dt", "request")
           /\ Logged("cancel") => Before("cancel", "request")
           /\ \A e \in FrameLogic : Logged(e) => Before("request", e)

\* a tick that cancelled a stored request has rendered, its own request
\* outstanding all the while
C15_Witness ==
    /\ pc = "frameend"
    /\ Logged("cancel") /\ Logged("postrender")
    /\ frameRequestId # 0
    /\ frameRequestId \in rafPending

(***************************************************************************)
(* start() and init()                                                      *)
(***************************************************************************)
\* the steps of a tick function call
TickSteps == {"cancel", "inFrameUpdate", "dt", "request"} \cup FrameLogic

\* C16: start() on an initialised application fires 'start', the systems'
\* 'initialize', the application's 'initialize', the systems' 'postInitialize'
\* and 'postPostInitialize', the application's 'postinitialize', in this
\* order, and then runs the first tick before it returns; no step of a tick
\* comes before 'postinitialize'.
C16_StartOrder ==
    [][(startCalls' # startCalls /\ tick = "fn")
         => /\ Len(log') > 6
            /\ SubSeq(log', 1, 6) =
                 <<"start", "sys:initialize", "initialize", "sys:postInitialize",
                   "sys:postPostInitialize", "postinitialize">>
            /\ calls' = calls + 1
            /\ Logged("request")'
            /\ \A e \in TickSteps : Logged(e)' => Before("postinitialize", e)']_vars

\* the first tick, made by start(), has rendered
C16_Witness ==
    /\ lastOp = "start"
    /\ startCalls = 1
    /\ pc = "frameend"
    /\ Before("postinitialize", "request")
    /\ Logged("postrender")

C18_SecondStartFails ==
    [][(startCalls' # startCalls /\ startRuns >= 1 /\ graphicsDevice = "device")
         => /\ startRuns' = startRuns
            /\ frame' = frame
            /\ calls' = calls
            /\ log' = log]_vars

\* C19: a second init() fails and leaves what the first call set up unchanged:
\* its body does not run again, no second 'prerender' one-shot handler is
\* registered.
C19_SecondInitFails ==
    [][(inits >= 1 /\ graphicsDevice = "device")
         => (inits' = inits /\ (bakeHooks' # bakeHooks => bakeHooks' = 0))]_vars

\* C20: with a lightmapper configured the bake has run exactly once from the
\* first render after start() on, and not before.
C20_BakesOnce ==
    lightmapper => bakes = (IF renders >= 1 THEN 1 ELSE 0)

(***************************************************************************)
(* Texture slots after resolve()                                           *)
(***************************************************************************)
\* C21: after every _bindAndAssignAssets, every texture slot whose id in the
\* data is not null holds the asset's loaded resource or the slot's
\* placeholder, whether the registry has the asset or not.
C21_SlotResolvedOrPlaceholder ==
    matOp = "resolve"
        => \A n \in TEXTURES :
              data[n] # NoId
                  => \/ material[n] = GetPlaceholderTexture(n)
                     \/ /\ registry[data[n]] = "loaded"
                        /\ material[n] = Resource(data[n])

\* C22: on a material whose 'diffuseMap' holds nothing, with the id X in the
\* data and X not loaded, _bindAndAssignAssets assigns the 'gray' built-in
\* texture; when 'load' is later fired for X and delivered to the slot, the
\* slot holds X's resource and the material is updated exactly once.
C22_PlaceholderThenLoaded ==
    [][/\ (/\ matOp' = "resolve"
           /\ material["diffuseMap"] = Null
           /\ data'["diffuseMap"] # NoId
           /\ registry[data'["diffuseMap"]] # "loaded")
            => material'["diffuseMap"] = BuiltIn("gray")
       /\ (matOp' = "load" /\ Bound(matArg') = {"diffuseMap"})
            => /\ material'["diffuseMap"] = Texture(matArg')
               /\ updates' = 1]_vars

(***************************************************************************)
(* Removed and unloaded texture assets                                     *)
(***************************************************************************)
\* C23: on a loaded material, a 'remove' or 'unload' of the asset X reverts a
\* slot whose id in the data is X and which holds X's resource to its
\* placeholder, and updates the material; a slot that holds anything else is
\* left unchanged, and if no slot holds X's resource nothing is updated.
C23_RevertsOnRemoveOrUnload ==
    [][(matOp' \in {"remove", "unload"} /\ materialLoaded)
         => /\ \A n \in TEXTURES :
                 /\ (data[n] = matArg' /\ material[n] = Texture(matArg'))
                      => (material'[n] = GetPlaceholderTexture(n) /\ updates' >= 1)
                 /\ (material[n] # Texture(matArg'))
                      => material'[n] = material[n]
            /\ (\A n \in TEXTURES : material[n] # Texture(matArg'))
                 => updates' = 0]_vars

(***************************************************************************)
(* resolve() repeated                                                      *)
(***************************************************************************)
\* C24 as stated: a second _bindAndAssignAssets with unchanged data makes no
\* assets.load() call and re-initialises nothing.
C24_RepeatDoesNothing ==
    repeated => (loadCalls = 0 /\ updates = 0)

\* C24 as the code has it: the second call changes no slot's texture; it
\* runs the final initialize once more, and calls assets.load() again for
\* every slot with an id whose asset is in the registry, unless the data is
\* validated and the slot holds a texture other than its placeholder.
C24_RepeatKeepsTextures ==
    [][repeated'
         => /\ material' = material
            /\ updates' = 1
            /\ loadCalls' =
                 Cardinality({n \in TEXTURES :
                    /\ data[n] # NoId
                    /\ registry[data[n]] # "absent"
                    /\ \/ ~validated
                       \/ material[n] = Null
                       \/ material[n] = GetPlaceholderTexture(n)})]_vars

\* a repeated call has asked again for an asset whose load is pending
C24_Witness ==
    /\ repeated
    /\ loadCalls = 1
    /\ updates = 1
    /\ validated
    /\ material["diffuseMap"] = BuiltIn("gray")
    /\ data["diffuseMap"] # NoId

(***************************************************************************)
(* References and freed textures                                           *)
(***************************************************************************)
\* C25: on a loaded material every slot that has an id in the data and has a
\* reference has that reference bound to the id.
C25_ReferenceStaysBound ==
    materialLoaded
        => \A n \in TEXTURES :
              (data[n] # NoId /\ _assetReferences[n] # NoReference)
                  => _assetReferences[n] = data[n]

\* C26: no slot of a loaded material that has an id in the data holds a
\* texture whose asset has been removed or unloaded since.
C26_NoFreedTexture ==
    materialLoaded
        => \A n \in TEXTURES : data[n] # NoId => material[n].kind # "freed"

(***************************************************************************)
(* Unloaded material, late assets, failed loads                            *)
(***************************************************************************)
RegistryEvents == {"add", "load", "unload", "remove", "error"}

C28_LateAssetIsLoaded ==
    [][\A n \in TEXTURES :
         /\ (matOp' = "add" /\ materialLoaded /\ data[n] = matArg')
              => (n \in handled' /\ loadCalls' >= 1)
         /\ (matOp' = "load" /\ materialLoaded /\ data[n] = matArg')
              => (material'[n] = Texture(matArg') /\ updates' >= 1)]_vars

\* the slot holds the same texture, freed or not
SameTexture(a, b) ==
    \/ a = b
    \/ a.kind = "texture" /\ b.kind = "freed" /\ a.id = b.id

\* C29: a failed load changes no slot and no reference, updates nothing and
\* invokes no handler; a slot's texture changes only in _bindAndAssignAssets
\* or on a 'load', 'remove' or 'unload' of the asset its reference is bound to.
C29_FailedLoadChangesNothing ==
    [][/\ (matOp' = "error")
            => /\ material' = material
               /\ _assetReferences' = _assetReferences
               /\ handled' = {}
               /\ updates' = 0
               /\ loadCalls' = 0
       /\ \A n \in TEXTURES :
            ~SameTexture(material[n], material'[n])
                => \/ matOp' = "resolve"
                   \/ /\ matOp' \in {"load", "remove", "unload"}
                      /\ matArg' = _assetReferences[n]]_vars

\* the load of the asset a slot waits for on its placeholder has failed
C29_Witness ==
    /\ matOp = "error"
    /\ materialLoaded
    /\ data["diffuseMap"] = matArg
    /\ _assetReferences["diffuseMap"] = matArg
    /\ material["diffuseMap"] = BuiltIn("gray")

(***************************************************************************)
(* Placeholders of the declared slots                                      *)
(***************************************************************************)
\* C30: a MaterialHandler is constructed only if every declared texture slot
\* has a placeholder in PLACEHOLDER_MAP.
C30_ConstructedImpliesPlaceholders ==
    handler = "constructed"
        => \A n \in TEXTURES : n \in DOMAIN PLACEHOLDER_MAP

(***************************************************************************)
(* Cubemap slots                                                           *)
(***************************************************************************)
\* the calls of _assignCubemap that pass the textures of a cubemap asset
DependencyCalls == {c \in cubeAssigned : cubeOp \in {"resolve", "load"}}

\* C31: when the textures of a cubemap asset are assigned to 'cubeMap', the
\* levels 1..6 become prefilteredCubemaps only if all six are there; if not
\* all are there but level 1 is, level 1 becomes envAtlas and
\* prefilteredCubemaps is left alone; for another slot name only the primary
\* texture (level 0) is assigned.
C31_PrefilteredOnlyIfComplete ==
    [][\A c \in DependencyCalls' :
          LET all == \A level \in 1 .. 6 : c.textures[level].kind = "cubemap" IN
          /\ cubeMaterial'[c.name] = c.textures[0]
          /\ (c.name = "cubeMap" /\ all)
               => prefilteredCubemaps' = <<c.textures[1], c.textures[2],
                                           c.textures[3], c.textures[4],
                                           c.textures[5], c.textures[6]>>
          /\ (c.name = "cubeMap" /\ ~all)
               => prefilteredCubemaps' = prefilteredCubemaps
          /\ (c.name = "cubeMap" /\ ~all /\ c.textures[1].kind = "cubemap")
               => envAtlas' = c.textures[1]
          /\ (\A b \in DependencyCalls' : b.name # "cubeMap")
               => /\ prefilteredCubemaps' = prefilteredCubemaps
                  /\ envAtlas' = envAtlas]_vars

\* level 1 alone of a loaded cubemap asset has gone to envAtlas
C31_Witness ==
    /\ cubeOp = "load"
    /\ \E c \in cubeAssigned :
          /\ c.name = "cubeMap"
          /\ c.textures[1].kind = "cubemap"
          /\ c.textures[2].kind = "null"
          /\ envAtlas = c.textures[1]
    /\ prefilteredCubemaps = <<>>

\* the textures of the cubemap asset that have been freed
FreedOf(id) == {CubeFreed(id, level) : level \in Levels}

\* what the material holds for its 'cubeMap' slot
CubeMapHolds ==
    {cubeMaterial["cubeMap"], envAtlas}
        \cup {prefilteredCubemaps[level] : level \in DOMAIN prefilteredCubemaps}

\* C36: once the cubemap asset bound to the 'cubeMap' slot has been removed
\* or unloaded, cubeMap, prefilteredCubemaps and envAtlas hold none of its
\* textures, and the material has been marked for re-initialization.
C36_CubemapCleared ==
    [][(/\ cubeOp' \in {"remove", "unload"}
        /\ cubeReferences["cubeMap"] = cubeArg'
        /\ \E t \in CubeMapHolds : t.kind = "cubemap" /\ t.asset = cubeArg')
         => /\ CubeMapHolds' \cap FreedOf(cubeArg') = {}
            /\ cubeUpdates' >= 1]_vars

(***************************************************************************)
(* The lookup of the current application                                   *)
(***************************************************************************)
\* the application's destroy sequence has run
Destroyed(a) == device[a] = "null"

\* C32: once destroy() of an application has run, neither getApplication()
\* nor getApplication(id of its canvas) returns it
C32_DestroyedNotReturned ==
    \A a \in Apps :
        Destroyed(a) =>
            /\ GetApplication("") # a
            /\ GetApplication(canvas[a]) # a

(***************************************************************************)
(* preload                                                                 *)
(***************************************************************************)
\* C33: preload(callback) invokes the callback and fires 'preload:end' once
\* and no more, only when every asset marked preload has loaded or errored,
\* whatever the order of the assets' 'load' and 'error' events, and the value
\* of 'preload:progress' (loadedCount / assets.length) never exceeds 1.
C33_PreloadEndsOnceWhenSettled ==
    /\ preloadCallbacks <= 1
    /\ preloadEnds <= 1
    /\ preloadCallbacks = preloadEnds
    /\ endedSettled
    /\ (preloadOp # "none" /\ settled = preloadAssets) => preloadEnds = 1
    /\ loadedCount <= Cardinality(preloadAssets)

(***************************************************************************)
(* _loadLibraries                                                          *)
(***************************************************************************)
\* C34: _loadLibraries invokes its callback once and no more, whatever the
\* list and the outcomes of the loads: with null when every library loaded,
\* with an error when one failed; it never reports success after an error,
\* and onLibrariesLoaded runs only when no library failed.
C34_CallbackOnce ==
    /\ Len(libReported) <= 1
    /\ (libLen # NotCalled /\ libCount = 0)
         => /\ Len(libReported) = 1
            /\ libReported[1] = (IF libFailed THEN "err" ELSE "null")
    /\ \A i, j \in DOMAIN libReported :
          (i < j /\ libReported[i] = "err") => libReported[j] # "null"
    /\ librariesLoaded > 0 => ~libFailed

(***************************************************************************)
(* setSkybox                                                               *)
(***************************************************************************)
\* C35: once setSkybox(B) has replaced the skybox asset A, no handler
\* registered for A is subscribed any more, and a later 'remove' or 'load'
\* of A changes neither the scene's skybox nor the skybox asset, which
\* stays B.
C35_ReplacedAssetIsForgotten ==
    [][/\ _skyboxAsset' # NoId
          => \A h \in loadHandlers' \cup removeHandlers' : h[1] = _skyboxAsset'
       /\ (/\ skyOp' \in {"load", "remove"}
           /\ _skyboxAsset # NoId
           /\ skyArg' # _skyboxAsset)
             => /\ _skyboxAsset' = _skyboxAsset
                /\ sceneSkybox' = sceneSkybox]_vars

(***************************************************************************)
(* Order of the lifecycle events of a tick                                 *)
(***************************************************************************)
\* the events and device calls of a tick whose order C37 is about
LifecycleSteps ==
    {"frameupdate", "sys:update", "sys:animationUpdate", "sys:postUpdate",
     "update", "framerender", "frameStart", "prerender", "postrender",
     "frameEnd", "frameend"}

IsLifecycleStep(e) == e \in LifecycleSteps

\* those of the latest tick, in the order they happened
LifecycleLog == SelectSeq(log, IsLifecycleStep)

\* the order of a tick that renders, and of one that does not
LifecycleOrder(rendering) ==
    <<"frameupdate", "sys:update", "sys:animationUpdate", "sys:postUpdate",
      "update", "framerender">>
      \o (IF rendering
          THEN <<"frameStart", "prerender", "postrender", "frameEnd">>
          ELSE <<>>)
      \o <<"frameend">>

IsPrefix(a, b) == Len(a) <= Len(b) /\ a = SubSeq(b, 1, Len(a))

\* C37: in a tick that runs its body the events come in the order
\* 'frameupdate', the update phase (systems' update, animationUpdate,
\* postUpdate, the application's 'update'), 'framerender', then when
\* rendering frameStart(), 'prerender', 'postrender', frameEnd(), then
\* 'frameend'; frameStart and frameEnd are balanced and never nested.
C37_LifecycleOrder ==
    /\ \E rendering \in BOOLEAN : IsPrefix(LifecycleLog, LifecycleOrder(rendering))
    /\ (pc = "idle" /\ Logged("sys:update"))
         => \E rendering \in BOOLEAN : LifecycleLog = LifecycleOrder(rendering)
    /\ Logged("frameEnd") => Before("frameStart", "frameEnd")
    /\ (pc = "idle" /\ Logged("frameStart")) => Logged("frameEnd")

\* a tick has rendered and ended
C37_Witness ==
    /\ pc = "idle"
    /\ LifecycleLog = LifecycleOrder(TRUE)

(***************************************************************************)
(* The frame counter                                                       *)
(***************************************************************************)
\* the step is a call of start()
StartStep == startCalls' = startCalls + 1

\* the step begins the update phase of a tick
UpdateStep == pc = "frameupdate" /\ pc' = "update"

\* C38: the frame counter is the number of update phases run since the
\* latest start(): start() sets it to 0, a tick that runs its update phase
\* adds exactly 1, and nothing else changes it; a tick skipped for a lost
\* context or a refused XR update leaves it as it is.
C38_FrameCountsUpdates ==
    [][/\ StartStep => frame' = 0
       /\ UpdateStep => frame' = frame + 1
       /\ (~StartStep /\ ~UpdateStep) => frame' = frame]_vars

\* after start() and two update phases, a tick has been skipped for a lost
\* context
C38_Witness ==
    /\ startCalls = 1
    /\ frame = 2
    /\ contextLost
    /\ pc = "idle"
    /\ lastOp = "raf"
    /\ ~Logged("frameupdate")

(***************************************************************************)
(* Mouse                                                                   *)
(***************************************************************************)
\* C39: for a button pressed between two ticks and held since,
\* wasPressed(button) is true in the update phase of the first tick after
\* the mousedown and of no later tick.
C39_PressedInFirstUpdateOnly ==
    \A b \in Buttons :
        (_buttons[b] /\ held[b] /\ updatesSince[b] >= 1) => pressedIn[b] = {1}

\* C40: each of the four listeners on window is registered once if the
\* mouse is attached and not at all otherwise; attach on an attached mouse
\* only replaces the target, detach on a detached mouse does nothing.
C40_ListenersFollowAttached ==
    [][/\ \A e \in MouseEvents : (e \in windowListeners') <=> _attached'
       /\ (mouseOp' = "attach" /\ _attached)
            => /\ windowListeners' = windowListeners
               /\ _attached'
               /\ _target' \in Elements
       /\ (mouseOp' = "detach" /\ ~_attached)
            => UNCHANGED <<windowListeners, _attached, _target>>]_vars

\* a detached mouse has been attached again
C40_Witness ==
    /\ mouseOp = "attach"
    /\ _attached
    /\ _target = "other"
    /\ windowListeners = MouseEvents
    /\ \E b \in Buttons : held[b] /\ ~_buttons[b]

====
